---- MODULE Spec2Model ----
\* Model of gopherd/exp: the configuration snapshot store (config.Config), its
\* loaders, the refresh client (config.Client) and the spawn.Tick task that
\* drives the periodic refresh.
EXTENDS Integers, Sequences, FiniteSets

\* ---------------------------------------------------------------- bounds
\* Hub objects that c.new() may allocate in one behaviour.
MaxHubs == 3
\* Concurrent goroutines calling Latest().
NReaders == 1
\* Invocations of a task function and calls of Cancel counted in one behaviour.
MaxCalls == 2
MaxCancels == 2
\* Capacity of an input channel of Chan2 and values sent on each.
ChanCap == 2
MaxSends == 2
\* Length of a scope list, and chunks of a content type, given to a direct call.
MaxScopes == 4
MaxChunks == 3
\* Clock steps in one interval of a timed Tick.
Period == 5
\* Clock steps a timed Tick is followed past the deadline of its context.
Overrun == 5
\* Stages of the longest chain that is invoked.
MaxStages == 3

\* ------------------------------------------------------------- constants
\* A nil pointer / nil interface.
NIL == 0

\* A Handle that was never assigned (the nil interface).
NoHandle == "nil"

\* The parent context of a timed Tick expires after this many intervals.
Windows == 4

TaskIds == {"t1", "t2"}
Readers == 1..NReaders
\* Chan2 selects over two input channels.
NChans == 2
ChanIds == 1..NChans
\* The goroutine of the embedding application that drives the client.
Caller == "caller"
Executors == {Caller} \cup TaskIds

\* Strings are sequences of chunks; the separators the code looks for (";",
\* the scheme prefixes) are chunks of their own.
HeaderChecksum == "X-Checksum"
ContentTypeJSON == <<"application/json">>
ContentTypeYAML == <<"application/yaml">>
ContentTypeTOML == <<"application/toml">>

\* ------------------------------------------------------ ContentType.Parse
\* strings.IndexByte: the first index of b, 0 when absent (Go: -1).
RECURSIVE IndexFrom(_, _, _)
IndexFrom(c, b, i) ==
    IF i > Len(c) THEN 0
    ELSE IF c[i] = b THEN i
    ELSE IndexFrom(c, b, i + 1)

IndexByte(c, b) == IndexFrom(c, b, 1)

\* A Parse that compares the content type with its parameters.
ContentTypeParseKeepsParameters(c) ==
    CASE c = <<>> -> [ext |-> "json", dec |-> "json.Unmarshal", err |-> "nil"]
      [] c = ContentTypeJSON -> [ext |-> "json", dec |-> "json.Unmarshal", err |-> "nil"]
      [] c = ContentTypeYAML -> [ext |-> "yaml", dec |-> "yaml.Unmarshal", err |-> "nil"]
      [] c = ContentTypeTOML -> [ext |-> "toml", dec |-> "toml.Unmarshal", err |-> "nil"]
      [] OTHER -> [ext |-> "", dec |-> "", err |-> "unsupported content type"]

ContentTypeParse(c) ==
    IF c = <<>> THEN [ext |-> "json", dec |-> "json.Unmarshal", err |-> "nil"]
    ELSE LET i == IndexByte(c, ";")
             c2 == IF i >= 1 THEN SubSeq(c, 1, i - 1) ELSE c
         IN  CASE c2 = ContentTypeJSON -> [ext |-> "json", dec |-> "json.Unmarshal", err |-> "nil"]
               [] c2 = ContentTypeYAML -> [ext |-> "yaml", dec |-> "yaml.Unmarshal", err |-> "nil"]
               [] c2 = ContentTypeTOML -> [ext |-> "toml", dec |-> "toml.Unmarshal", err |-> "nil"]
               [] OTHER -> [ext |-> "", dec |-> "", err |-> "unsupported content type"]

\* ---------------------------------------------------------------- Scopes
\* Byte order of the scope names the model uses.
ScopeRank(s) ==
    CASE s = "" -> 0
      [] s = "*" -> 1
      [] s = "a" -> 2
      [] s = "b" -> 3

RemoveAt(s, i) == SubSeq(s, 1, i - 1) \o SubSeq(s, i + 1, Len(s))

RECURSIVE InsertSorted(_, _)
InsertSorted(x, s) ==
    IF s = <<>> THEN <<x>>
    ELSE IF ScopeRank(x) <= ScopeRank(Head(s)) THEN <<x>> \o s
    ELSE <<Head(s)>> \o InsertSorted(x, Tail(s))

RECURSIVE SlicesSort(_)
SlicesSort(s) == IF s = <<>> THEN <<>> ELSE InsertSorted(Head(s), SlicesSort(Tail(s)))

\* A Compact that removes no duplicate.
SlicesCompactKeepsDuplicates(s) == s

RECURSIVE SlicesCompact(_)
SlicesCompact(s) ==
    IF Len(s) <= 1 THEN s
    ELSE IF s[1] = s[2] THEN SlicesCompact(Tail(s))
    ELSE <<Head(s)>> \o SlicesCompact(Tail(s))

\* The right-to-left scan of Scopes.Compact from index i.
RECURSIVE CompactScan(_, _)
CompactScan(s, i) ==
    IF i < 1 THEN SlicesCompact(SlicesSort(s))
    ELSE IF s[i] = "*" THEN SubSeq(s, i, i)
    ELSE IF s[i] = "" THEN CompactScan(RemoveAt(s, i), i - 1)
    ELSE CompactScan(s, i - 1)

\* A Compact without the scan for the wildcard and the empty strings.
CompactSortsOnly(s) == SlicesCompact(SlicesSort(s))

Compact(s) == CompactScan(s, Len(s))

\* The caller's backing array after Compact has run on the slice a[1..n]:
\* append(s[:i], s[i+1:]...) shifts the elements above an empty string down
\* in place and leaves the last one where it was, slices.Sort sorts the
\* remaining prefix in place, and slices.Compact (Go 1.22) moves the distinct
\* elements to the front and clears the rest of that prefix.
RECURSIVE CompactBackingScan(_, _, _)
CompactBackingScan(a, n, i) ==
    IF i < 1 THEN
        LET u == SlicesCompact(SlicesSort(SubSeq(a, 1, n)))
        IN  u \o [k \in 1..(n - Len(u)) |-> ""] \o SubSeq(a, n + 1, Len(a))
    ELSE IF a[i] = "*" THEN a
    ELSE IF a[i] = "" THEN
        CompactBackingScan(SubSeq(a, 1, i - 1) \o SubSeq(a, i + 1, n) \o SubSeq(a, n, Len(a)),
                           n - 1, i - 1)
    ELSE CompactBackingScan(a, n, i - 1)

CompactBacking(s) == CompactBackingScan(s, Len(s), Len(s))

Any(s) == Len(s) = 1 /\ s[1] = "*"

\* slices.BinarySearch on positions i..j-1 (counted from 0): the first
\* position whose element is not less than x.
RECURSIVE BinarySearchFrom(_, _, _, _)
BinarySearchFrom(s, x, i, j) ==
    IF i >= j THEN i
    ELSE LET h == (i + j) \div 2
         IN  IF ScopeRank(s[h + 1]) < ScopeRank(x) THEN BinarySearchFrom(s, x, h + 1, j)
             ELSE BinarySearchFrom(s, x, i, h)

BinarySearch(s, x) ==
    LET i == BinarySearchFrom(s, x, 0, Len(s))
    IN  [pos |-> i, found |-> (i < Len(s) /\ s[i + 1] = x)]

\* A Has that searches without looking for the wildcard.
HasSearchesOnly(s, x) == BinarySearch(s, x).found

Has(s, x) == IF Any(s) THEN TRUE ELSE BinarySearch(s, x).found

Range(s) == {s[i] : i \in 1..Len(s)}

\* ---------------------------------------------------------------- inputs
SrcHTTP == <<"http://", "cfg.example/cfg">>
SrcFile == <<"file://", "/etc/cfg">>
SrcPath == <<"rel/cfg">>
\* Sources that are not URLs: a stray "%" is an invalid escape.
SrcFileBad == <<"file://", "/etc/cfg", "%">>
SrcPathBad == <<"rel/cfg", "%">>
Sources == {SrcHTTP, SrcFile, SrcPath, SrcFileBad, SrcPathBad}

ContentTypes ==
    {<<>>, <<"application/json", ";", " charset=utf-8">>, <<"application/yaml">>, <<"text/plain">>}

ScopeLists == {<<>>, <<"">>, <<"b", "a", "">>, <<"a", "*">>, <<"*", "b">>}

\* The inputs of the direct calls: every scope list of up to MaxScopes names,
\* every content type of up to MaxChunks chunks.
ScopeNames == {"", "*", "a", "b"}
ScopeInputs == UNION {[1..n -> ScopeNames] : n \in 0..MaxScopes}
Chunks ==
    {"application/json", "application/yaml", "application/toml", "text/plain", ";",
     " charset=utf-8"}
ContentTypeInputs == UNION {[1..n -> Chunks] : n \in 0..MaxChunks}

\* Checksums a remote may report; "" is an absent X-Checksum header.
Checksums == {"", "s1", "s2"}
\* Response bodies and Fetch results; the hub's Parse rejects "bad".
NamerNames == {"", "kebab_case", "title_case"}
Bodies == {"good", "bad"}
\* Contents of a scope file; "raw" is not a JSON value (a YAML document
\* such as "k: v", any TOML document), the hub's Parse rejects "bad".
FileContents == {"f1", "bad", "raw"}
Missing == "missing"

HasPrefix(s, p) == Len(s) >= 1 /\ s[1] = p

\* ------------------------------------------------------------------ data
\* Raw bytes handed to Hub.Parse: a response body or Fetch result (one blob,
\* no scopes), or the directory loader's envelope (scope i -> blob i).
NoData == [scopes |-> <<>>, blobs |-> <<>>]
BodyData(b) == [scopes |-> <<>>, blobs |-> <<b>>]
Envelope(scopes, contents) == [scopes |-> scopes, blobs |-> contents]

\* The embedding application's Hub.Parse: it rejects malformed payloads.
HubAccepts(data) == "bad" \notin Range(data.blobs)

\* json.Marshal of map[string]json.RawMessage fails on a value that is not JSON.
MarshalOK(contents) == "raw" \notin Range(contents)

\* ----------------------------------------------------------------- state
VARIABLES
    options,    \* Options of every Load of this behaviour (ClientOptions, or Options with Fetch)
    hub,        \* Config.hub: NIL or the index of a hub object in heap
    checksum,   \* Config.checksum
    heap,       \* hub objects allocated by c.new(): [state, data]
    frames,     \* per goroutine: the activation of Config.Load it is executing
    tasks,      \* per spawn.Tick task: goroutine position, context, ticker channel
    handle,     \* Client.handle
    namer,      \* Client.namer: "nil" or the name of the namer function
    caller,     \* the driving goroutine: position in Init / Start / Shutdown
    readers,    \* goroutines inside Latest()
    ctx,        \* the contexts passed to Start and Shutdown: [start, join] done flags; the clock now,
                \* and late: the clock has advanced while a step was ready (observation only)
    fault,      \* "none", or the panic that ended the process
    hist,       \* history of completed loads (observation only)
    chans,      \* the input channels of a Chan2 task: [buf, sent, closed, zero]
    handled,    \* the handler invocations of a Chan2 task, in order: [f, ch, v]
    probe       \* a direct call of Scopes.Compact, Scopes.Has or ContentType.Parse

vars ==
    <<options, hub, checksum, heap, frames, tasks, handle, namer, caller, readers, ctx, fault,
      hist, chans, handled, probe>>

IdleFrame ==
    [pc |-> "idle", path |-> "", source |-> <<>>, scopes |-> <<>>, dec |-> "", namer |-> "nil",
     checksum |-> "",
     newChecksum |-> "", data |-> NoData, hub |-> NIL, changed |-> FALSE, err |-> "nil",
     preHub |-> NIL, preSum |-> "", decodes |-> 0, fetched |-> FALSE, sent |-> "none",
     retryOf |-> "none", applied |-> "", readable |-> <<>>,
     fetchCalls |-> <<>>, dir |-> <<>>]

\* A task of package spawn: the position of its goroutine, its function and
\* interval, its context (cancelled), its ticker channel (tick), the number of
\* invocations of its function in progress (running) and started (calls, kept
\* for a function other than reload), and the number of times its done
\* channel has been closed (closed). pending records, for a task of Chan2
\* with cleanup, the values that were buffered when it saw its context done.
\* Under the clock, next is the time of the ticker's next tick and invoked
\* the number of invocations of the function. panic is the panic that has
\* unwound the goroutine and that nothing has recovered.
NoTask ==
    [pc |-> "none", kind |-> "tick", fn |-> "reload", d |-> 0, cancelled |-> FALSE,
     tick |-> FALSE, logged |-> FALSE, running |-> 0, calls |-> 0, closed |-> 0,
     cleanup |-> FALSE, stage |-> 0, pending |-> {}, next |-> 0, invoked |-> 0,
     panic |-> "none"]

\* No direct call of a pure function is in progress.
NoProbe ==
    [pc |-> "none", scopes |-> <<>>, arr |-> <<>>, res |-> <<>>, x |-> "", has |-> FALSE,
     ct |-> <<>>, parsed |-> [ext |-> "", dec |-> "", err |-> "nil"]]

\* The state after construction, for the options o and the direct call p.
InitWith(o, p) ==
    /\ options = o
    /\ probe = p
    /\ hub = NIL
    /\ checksum = ""
    /\ heap = <<>>
    /\ frames = [e \in Executors |-> IdleFrame]
    /\ tasks = [t \in TaskIds |-> NoTask]
    /\ handle = NoHandle
    /\ namer = "nil"
    /\ caller = [pc |-> "new", err |-> "nil", first |-> "pending", again |-> FALSE, loads |-> 0,
                 cancels |-> 0, seen |-> 0]
    /\ readers = [r \in Readers |-> [pc |-> "idle", ptr |-> NIL]]
    /\ ctx = [start |-> FALSE, join |-> FALSE, now |-> 0, late |-> FALSE]
    /\ fault = "none"
    /\ hist = [failed |-> FALSE, failSum |-> "", appliedSum |-> ""]
    /\ chans = [c \in ChanIds |-> [buf |-> <<>>, sent |-> 0, closed |-> FALSE, zero |-> FALSE]]
    /\ handled = <<>>

\* The options of the client or of the application's own Load calls.
OptionSpace ==
    {o \in [source : Sources, contentType : ContentTypes, scopes : ScopeLists,
            namer : NamerNames, fetch : BOOLEAN, interval : {0, 1}] :
        /\ o.fetch => (o.interval = 0 /\ o.namer = "")
        /\ o.namer # "" => (o.source = SrcFile /\ o.contentType = <<>>)
        /\ o.contentType = <<"application/yaml">> =>
             (o.source = SrcFile /\ o.namer = "" /\ ~o.fetch /\ o.scopes = <<"b", "a", "">>)
        /\ o.source \in {SrcFileBad, SrcPathBad} =>
             (o.namer = "" /\ ~o.fetch /\ o.scopes = <<"b", "a", "">>)
        /\ o.source = SrcPathBad => o.interval = 0}

Init == \E o \in OptionSpace : InitWith(o, NoProbe)

Alive == fault = "none"

\* ------------------------------------------------------ Config.Load steps
Return(f, changed, err) == [f EXCEPT !.pc = "ret", !.changed = changed, !.err = err]

\* url.Parse(options.Source): a "%" that two hex digits do not follow is an
\* invalid escape; otherwise the path is what follows the scheme, without the
\* query.
urlParse(source) ==
    IF "%" \in Range(source) THEN [path |-> <<>>, err |-> "invalid URL escape"]
    ELSE [path |-> SelectSeq(Tail(source), LAMBDA c : c # "?ext=json"), err |-> "nil"]

\* "file://" + dir + "?ext=json" for the dir that filepath.Abs makes of a
\* relative path by joining it to the working directory.
Abs(source) == <<"file://", "/cwd/">> \o source \o <<"?ext=json">>

\* loadDir before its reads: url.Parse of the source, then ContentType.Parse;
\* Load returns either error next to changed = true.
loadDirOpen(f, source, ct) ==
    LET u == urlParse(source)
    IN  IF u.err # "nil" THEN Return(f, TRUE, u.err)
        ELSE IF ct.err # "nil" THEN Return(f, TRUE, ct.err)
        ELSE [f EXCEPT !.pc = "io", !.dir = u.path]

\* A Load that chooses its loader by the source although Fetch is given.
LoadIgnoresFetch(f, opts, sum, wd) ==
    LET scopes == Compact(opts.scopes)
        ct == ContentTypeParse(opts.contentType)
        g == [f EXCEPT !.source = opts.source, !.scopes = scopes, !.dec = ct.dec,
                       !.namer = opts.namer]
    IN  IF Len(scopes) = 0 THEN Return(g, FALSE, "nil")
        ELSE IF "*" \in Range(scopes) THEN Return(g, FALSE, "scope * should be resolved")
        ELSE IF HasPrefix(opts.source, "http://") \/ HasPrefix(opts.source, "https://") THEN
            IF ct.err # "nil" THEN Return(g, FALSE, ct.err)
            ELSE [g EXCEPT !.pc = "io", !.path = "http", !.checksum = sum]
        ELSE
            IF ~HasPrefix(opts.source, "file://") /\ ~wd
            THEN Return([g EXCEPT !.path = "dir"], FALSE, "getwd failed")
            ELSE loadDirOpen([g EXCEPT !.path = "dir"],
                             IF HasPrefix(opts.source, "file://") THEN opts.source
                             ELSE Abs(opts.source),
                             ct)

\* A Load that hands an empty scope list to its loader.
LoadWithoutEmptyCheck(f, opts, sum, wd) ==
    LET scopes == Compact(opts.scopes)
        ct == ContentTypeParse(opts.contentType)
        g == [f EXCEPT !.source = opts.source, !.scopes = scopes, !.dec = ct.dec,
                       !.namer = opts.namer]
    IN  IF "*" \in Range(scopes) THEN Return(g, FALSE, "scope * should be resolved")
        ELSE IF opts.fetch THEN
            IF ct.err # "nil" THEN Return(g, FALSE, ct.err)
            ELSE [g EXCEPT !.pc = "io", !.path = "fetch"]
        ELSE IF HasPrefix(opts.source, "http://") \/ HasPrefix(opts.source, "https://") THEN
            IF ct.err # "nil" THEN Return(g, FALSE, ct.err)
            ELSE [g EXCEPT !.pc = "io", !.path = "http", !.checksum = sum]
        ELSE
            IF ~HasPrefix(opts.source, "file://") /\ ~wd
            THEN Return([g EXCEPT !.path = "dir"], FALSE, "getwd failed")
            ELSE loadDirOpen([g EXCEPT !.path = "dir"],
                             IF HasPrefix(opts.source, "file://") THEN opts.source
                             ELSE Abs(opts.source),
                             ct)

\* A Load that hands an unresolved wildcard to its loader.
LoadWithoutWildcardCheck(f, opts, sum, wd) ==
    LET scopes == Compact(opts.scopes)
        ct == ContentTypeParse(opts.contentType)
        g == [f EXCEPT !.source = opts.source, !.scopes = scopes, !.dec = ct.dec,
                       !.namer = opts.namer]
    IN  IF Len(scopes) = 0 THEN Return(g, FALSE, "nil")
        ELSE IF opts.fetch THEN
            IF ct.err # "nil" THEN Return(g, FALSE, ct.err)
            ELSE [g EXCEPT !.pc = "io", !.path = "fetch"]
        ELSE IF HasPrefix(opts.source, "http://") \/ HasPrefix(opts.source, "https://") THEN
            IF ct.err # "nil" THEN Return(g, FALSE, ct.err)
            ELSE [g EXCEPT !.pc = "io", !.path = "http", !.checksum = sum]
        ELSE
            IF ~HasPrefix(opts.source, "file://") /\ ~wd
            THEN Return([g EXCEPT !.path = "dir"], FALSE, "getwd failed")
            ELSE loadDirOpen([g EXCEPT !.path = "dir"],
                             IF HasPrefix(opts.source, "file://") THEN opts.source
                             ELSE Abs(opts.source),
                             ct)

\* A Load whose loaders parse the content type only after the transfer.
LoadParsesContentTypeLate(f, opts, sum, wd) ==
    LET scopes == Compact(opts.scopes)
        ct == ContentTypeParse(opts.contentType)
        g == [f EXCEPT !.source = opts.source, !.scopes = scopes, !.dec = ct.dec,
                       !.namer = opts.namer]
    IN  IF Len(scopes) = 0 THEN Return(g, FALSE, "nil")
        ELSE IF "*" \in Range(scopes) THEN Return(g, FALSE, "scope * should be resolved")
        ELSE IF opts.fetch THEN [g EXCEPT !.pc = "io", !.path = "fetch"]
        ELSE IF HasPrefix(opts.source, "http://") \/ HasPrefix(opts.source, "https://") THEN
            [g EXCEPT !.pc = "io", !.path = "http", !.checksum = sum]
        ELSE [g EXCEPT !.pc = "io", !.path = "dir"]

\* Load up to the first call that blocks: Compact, the empty and wildcard
\* checks, the dispatch on Fetch and Source, and the ContentType.Parse of the
\* chosen loader; loadHTTP also reads c.checksum. A source that is not a URL
\* is a relative path: filepath.Abs needs the working directory, and wd tells
\* whether os.Getwd gives it. A plain path and a file:// source both go to
\* loadDir, which returns its error next to changed = true.
Load(f, opts, sum, wd) ==
    LET scopes == Compact(opts.scopes)
        ct == ContentTypeParse(opts.contentType)
        g == [f EXCEPT !.source = opts.source, !.scopes = scopes, !.dec = ct.dec,
                       !.namer = opts.namer]
    IN  IF Len(scopes) = 0 THEN Return(g, FALSE, "nil")
        ELSE IF "*" \in Range(scopes) THEN Return(g, FALSE, "scope * should be resolved")
        ELSE IF opts.fetch THEN
            IF ct.err # "nil" THEN Return(g, FALSE, ct.err)
            ELSE [g EXCEPT !.pc = "io", !.path = "fetch"]
        ELSE IF HasPrefix(opts.source, "http://") \/ HasPrefix(opts.source, "https://") THEN
            IF ct.err # "nil" THEN Return(g, FALSE, ct.err)
            ELSE [g EXCEPT !.pc = "io", !.path = "http", !.checksum = sum]
        ELSE
            IF ~HasPrefix(opts.source, "file://") /\ ~wd
            THEN Return([g EXCEPT !.path = "dir"], FALSE, "getwd failed")
            ELSE loadDirOpen([g EXCEPT !.path = "dir"],
                             IF HasPrefix(opts.source, "file://") THEN opts.source
                             ELSE Abs(opts.source),
                             ct)

\* Goroutine e calls c.Load(options) with the namer function nm in
\* Options.Namer: the activation records the store as it was at the call.
\* Load's first statement, options.Scopes.Compact(), works in place on the
\* slice the caller handed in, so the caller's own list is rewritten too.
CallWith(e, nm) ==
    /\ options' = [options EXCEPT !.scopes = CompactBacking(@)]
    /\ \E wd \in BOOLEAN :
        frames' = [frames EXCEPT ![e] =
            Load([IdleFrame EXCEPT !.preHub = hub, !.preSum = checksum,
                                   !.retryOf = IF hist.failed THEN hist.failSum ELSE "none",
                                   !.applied = hist.appliedSum],
                 [options EXCEPT !.namer = nm], checksum, wd)]

\* A Load whose Options.Namer is the client's c.namer.
Call(e) == CallWith(e, namer)

\* options.Fetch(options.ContentType, options.Scopes): the caller's function
\* gets the content type as given and the compacted scopes, and returns bytes
\* or fails; fetchCalls records the arguments of each call.
optionsFetch(e) ==
    /\ Alive
    /\ frames[e].pc = "io"
    /\ frames[e].path = "fetch"
    /\ LET f == [frames[e] EXCEPT !.fetchCalls =
                    Append(@, [contentType |-> options.contentType, scopes |-> frames[e].scopes])]
       IN  \/ frames' = [frames EXCEPT ![e] = Return(f, FALSE, "fetch failed")]
           \/ \E b \in Bodies :
                frames' = [frames EXCEPT ![e] = [f EXCEPT !.pc = "new", !.data = BodyData(b),
                                                         !.fetched = TRUE]]
    /\ UNCHANGED <<options, probe, chans, handled, namer, hub, checksum, heap, tasks, handle, caller, readers, ctx, fault, hist>>

\* loadHTTP without the comparison of the checksums.
loadHTTPAlwaysParses(f, newChecksum, body) ==
    [f EXCEPT !.newChecksum = newChecksum, !.fetched = TRUE, !.pc = "new", !.data = BodyData(body)]

\* loadHTTP after fetch has returned (newChecksum, body): the comparison with
\* the checksum read before the request.
loadHTTPCompare(f, newChecksum, body) ==
    LET g == [f EXCEPT !.newChecksum = newChecksum, !.fetched = TRUE]
    IN  IF newChecksum = f.checksum THEN Return(g, FALSE, "nil")
        ELSE [g EXCEPT !.pc = "new", !.data = BodyData(body)]

\* fetch(checksum, url, contentType, scopes): one request whose X-Checksum
\* header is the checksum loadHTTP read; the remote answers with any checksum
\* and body, or the request fails.
fetch(e) ==
    /\ Alive
    /\ frames[e].pc = "io"
    /\ frames[e].path = "http"
    /\ LET f == [frames[e] EXCEPT !.sent = frames[e].checksum]
       IN  \/ frames' = [frames EXCEPT ![e] = Return(f, FALSE, "fetch failed")]
           \/ \E newChecksum \in Checksums, body \in Bodies :
                frames' = [frames EXCEPT ![e] = loadHTTPCompare(f, newChecksum, body)]
    /\ UNCHANGED <<options, probe, chans, handled, namer, hub, checksum, heap, tasks, handle, caller, readers, ctx, fault, hist>>

\* The position of the first scope whose file os.ReadFile cannot read, 0 if none.
FirstMissing(files) == IndexByte(files, Missing)

\* A loadDir that leaves out the scopes whose file it cannot read.
loadDirSkipsUnreadable(f, files) ==
    LET kept == {i \in 1..Len(files) : files[i] # Missing}
        Pick(S) == CHOOSE i \in S : \A j \in S : i <= j
        Sub[S \in SUBSET (1..Len(files))] ==
            IF S = {} THEN <<>> ELSE <<Pick(S)>> \o Sub[S \ {Pick(S)}]
        idx == Sub[kept]
        blobs == [k \in 1..Len(idx) |-> files[idx[k]]]
    IN  IF ~MarshalOK(blobs) THEN Return(f, TRUE, "marshal failed")
        ELSE [f EXCEPT !.pc = "new", !.fetched = TRUE,
                       !.data = Envelope([k \in 1..Len(idx) |-> f.scopes[idx[k]]], blobs)]

\* loadDir after ContentType.Parse: the files of the scopes are read in order,
\* the first unreadable one fails the load; the blobs are marshalled into one
\* envelope.
loadDirRead(f, files) ==
    IF FirstMissing(files) # 0 THEN Return(f, TRUE, "read failed")
    ELSE IF ~MarshalOK(files) THEN Return(f, TRUE, "marshal failed")
    ELSE [f EXCEPT !.pc = "new", !.data = Envelope(f.scopes, files), !.fetched = TRUE]

\* loadDir from its loop on, after loadDirOpen: it meets any state of the
\* directory, each scope's file has some contents or cannot be read; readable
\* records which files could be read.
loadDir(e) ==
    /\ Alive
    /\ frames[e].pc = "io"
    /\ frames[e].path = "dir"
    /\ \E files \in [1..Len(frames[e].scopes) -> FileContents \cup {Missing}] :
         frames' = [frames EXCEPT ![e] =
                        loadDirRead([@ EXCEPT !.readable = [i \in 1..Len(files) |-> files[i] # Missing]],
                                    files)]
    /\ UNCHANGED <<options, probe, chans, handled, namer, hub, checksum, heap, tasks, handle, caller, readers, ctx, fault, hist>>

\* parse with the Store moved before hub.Parse.
parseNewPublishes(e) ==
    /\ Alive
    /\ frames[e].pc = "new"
    /\ Len(heap) < MaxHubs
    /\ heap' = Append(heap, [state |-> "parsing", data |-> NoData])
    /\ hub' = Len(heap) + 1
    /\ frames' = [frames EXCEPT ![e] = [@ EXCEPT !.pc = "parse", !.hub = Len(heap) + 1,
                                                  !.decodes = @ + 1]]
    /\ UNCHANGED <<options, probe, chans, handled, namer, checksum, tasks, handle, caller, readers, ctx, fault, hist>>

\* loadHTTP with c.checksum = newChecksum moved before c.parse.
parseNewSpeculativeChecksum(e) ==
    /\ Alive
    /\ frames[e].pc = "new"
    /\ Len(heap) < MaxHubs
    /\ heap' = Append(heap, [state |-> "parsing", data |-> NoData])
    /\ checksum' = IF frames[e].path = "http" THEN frames[e].newChecksum ELSE checksum
    /\ frames' = [frames EXCEPT ![e] = [@ EXCEPT !.pc = "parse", !.hub = Len(heap) + 1,
                                                  !.decodes = @ + 1]]
    /\ UNCHANGED <<options, probe, chans, handled, namer, hub, tasks, handle, caller, readers, ctx, fault, hist>>

\* parse, first half: hub := c.new() and the call of hub.Parse(data, dec),
\* which works on the new object only.
parseNew(e) ==
    /\ Alive
    /\ frames[e].pc = "new"
    /\ Len(heap) < MaxHubs
    /\ heap' = Append(heap, [state |-> "parsing", data |-> NoData])
    /\ frames' = [frames EXCEPT ![e] = [@ EXCEPT !.pc = "parse", !.hub = Len(heap) + 1,
                                                  !.decodes = @ + 1]]
    /\ UNCHANGED <<options, probe, chans, handled, namer, hub, checksum, tasks, handle, caller, readers, ctx, fault, hist>>

\* What Load returns when parse returned an error: loadHTTP returns false,
\* the Fetch and directory paths return "true, c.parse(...)".
ParseFailed(f) == Return(f, f.path # "http", "parse failed")

\* parse storing the hub without looking at the error of hub.Parse.
HubParseStoresOnError(e) ==
    /\ Alive
    /\ frames[e].pc = "parse"
    /\ LET f == frames[e]
       IN  IF HubAccepts(f.data)
           THEN /\ heap' = [heap EXCEPT ![f.hub] = [state |-> "parsed", data |-> f.data]]
                /\ frames' = [frames EXCEPT ![e] = [@ EXCEPT !.pc = "store"]]
                /\ UNCHANGED hub
           ELSE /\ heap' = [heap EXCEPT ![f.hub] = [state |-> "failed", data |-> NoData]]
                /\ frames' = [frames EXCEPT ![e] = Return(f, f.path # "http", "parse failed")]
                /\ hub' = f.hub
    /\ UNCHANGED <<options, probe, chans, handled, namer, checksum, tasks, handle, caller, readers, ctx, fault, hist>>

\* loadHTTP recording the checksum although parse returned an error.
HubParseRecordsChecksum(e) ==
    /\ Alive
    /\ frames[e].pc = "parse"
    /\ LET f == frames[e]
       IN  IF HubAccepts(f.data)
           THEN /\ heap' = [heap EXCEPT ![f.hub] = [state |-> "parsed", data |-> f.data]]
                /\ frames' = [frames EXCEPT ![e] = [@ EXCEPT !.pc = "store"]]
                /\ UNCHANGED checksum
           ELSE /\ heap' = [heap EXCEPT ![f.hub] = [state |-> "failed", data |-> NoData]]
                /\ frames' = [frames EXCEPT ![e] = Return(f, f.path # "http", "parse failed")]
                /\ checksum' = IF f.path = "http" THEN f.newChecksum ELSE checksum
    /\ UNCHANGED <<options, probe, chans, handled, namer, hub, tasks, handle, caller, readers, ctx, fault, hist>>

\* hub.Parse returns: the object is fully built, or the error goes to the caller.
HubParse(e) ==
    /\ Alive
    /\ frames[e].pc = "parse"
    /\ LET f == frames[e]
       IN  IF HubAccepts(f.data)
           THEN /\ heap' = [heap EXCEPT ![f.hub] = [state |-> "parsed", data |-> f.data]]
                /\ frames' = [frames EXCEPT ![e] = [@ EXCEPT !.pc = "store"]]
           ELSE /\ heap' = [heap EXCEPT ![f.hub] = [state |-> "failed", data |-> NoData]]
                /\ frames' = [frames EXCEPT ![e] = ParseFailed(f)]
    /\ UNCHANGED <<options, probe, chans, handled, namer, hub, checksum, tasks, handle, caller, readers, ctx, fault, hist>>

\* loadHTTP returning after parse without recording the checksum.
StoredSkipsChecksum(f) == Return(f, TRUE, "nil")

\* After c.hub.Store: loadHTTP still has the checksum to record, the other
\* paths return (true, nil).
Stored(f) == IF f.path = "http" THEN [f EXCEPT !.pc = "setsum"] ELSE Return(f, TRUE, "nil")

\* parse, second half: c.hub.Store(&hub).
parseStore(e) ==
    /\ Alive
    /\ frames[e].pc = "store"
    /\ hub' = frames[e].hub
    /\ frames' = [frames EXCEPT ![e] = Stored(@)]
    /\ hist' = IF frames[e].path = "http"
               THEN [hist EXCEPT !.appliedSum = frames[e].newChecksum]
               ELSE hist
    /\ UNCHANGED <<options, probe, chans, handled, namer, checksum, heap, tasks, handle, caller, readers, ctx, fault>>

\* A loadHTTP that records a checksum only while none is stored.
loadHTTPChecksumKeepsFirst(e) ==
    /\ Alive
    /\ frames[e].pc = "setsum"
    /\ checksum' = IF checksum = "" THEN frames[e].newChecksum ELSE checksum
    /\ frames' = [frames EXCEPT ![e] = Return(@, TRUE, "nil")]
    /\ UNCHANGED <<options, probe, chans, handled, namer, hub, heap, tasks, handle, caller, readers, ctx, fault, hist>>

\* loadHTTP: c.checksum = newChecksum; return true, nil.
loadHTTPChecksum(e) ==
    /\ Alive
    /\ frames[e].pc = "setsum"
    /\ checksum' = frames[e].newChecksum
    /\ frames' = [frames EXCEPT ![e] = Return(@, TRUE, "nil")]
    /\ UNCHANGED <<options, probe, chans, handled, namer, hub, heap, tasks, handle, caller, readers, ctx, fault, hist>>

\* What a returning Load leaves in the history: whether it was an HTTP load
\* that failed at parse, and with which remote checksum.
Completed(f) ==
    [hist EXCEPT !.failed = (f.path = "http" /\ f.err = "parse failed"),
                 !.failSum = IF f.path = "http" /\ f.err = "parse failed" THEN f.newChecksum ELSE ""]

\* ---------------------------------------------------------- Config.Latest
\* return *c.hub.Load(): one atomic load, then the dereference, which panics
\* on nil.
Latest(r) ==
    /\ Alive
    /\ readers[r].pc = "idle"
    /\ IF hub = NIL
       THEN /\ fault' = "nil pointer dereference"
            /\ UNCHANGED readers
       ELSE /\ readers' = [readers EXCEPT ![r] = [pc |-> "got", ptr |-> hub]]
            /\ UNCHANGED fault
    /\ UNCHANGED <<options, probe, chans, handled, namer, hub, checksum, heap, frames, tasks, handle, caller, ctx, hist>>

\* The consumer is done with the snapshot it got.
LatestDone(r) ==
    /\ Alive
    /\ readers[r].pc = "got"
    /\ readers' = [readers EXCEPT ![r] = [pc |-> "idle", ptr |-> NIL]]
    /\ UNCHANGED <<options, probe, chans, handled, namer, hub, checksum, heap, frames, tasks, handle, caller, ctx, fault, hist>>

\* ------------------------------------------------------------ the caller
\* The switch of Client.Init on options.Namer: one of the four known names
\* selects its namer function, any other string leaves c.namer as it was.
ResolveNamer(name, old) ==
    CASE name = "snake_case" -> "snakeCaseNamer"
      [] name = "camel_case" -> "camelCaseNamer"
      [] name = "pascal_case" -> "pascalCaseNamer"
      [] name = "kebab_case" -> "kebabCaseNamer"
      [] OTHER -> old

\* Init or Load has returned err to the driving goroutine.
Returned(c, err) ==
    [c EXCEPT !.pc = "ready", !.err = err,
            !.first = IF c.first = "pending" THEN err ELSE c.first]

\* Client.Init: the namer is resolved and Load is called synchronously.
ClientInit ==
    /\ Alive
    /\ ~options.fetch
    /\ caller.pc = "new"
    /\ caller' = [caller EXCEPT !.pc = "init", !.loads = @ + 1]
    /\ namer' = ResolveNamer(options.namer, namer)
    /\ CallWith(Caller, namer')
    /\ UNCHANGED <<probe, chans, handled, hub, checksum, heap, tasks, handle, readers, ctx, fault, hist>>

\* An Init that reports success whatever its Load returned.
InitReturnsNil ==
    /\ Alive
    /\ caller.pc = "init"
    /\ frames[Caller].pc = "ret"
    /\ caller' = Returned(caller, "nil")
    /\ hist' = Completed(frames[Caller])
    /\ frames' = [frames EXCEPT ![Caller] = IdleFrame]
    /\ UNCHANGED <<options, probe, chans, handled, namer, hub, checksum, heap, tasks, handle, readers, ctx, fault>>

\* Client.Init returns the error of its Load.
InitReturn ==
    /\ Alive
    /\ caller.pc = "init"
    /\ frames[Caller].pc = "ret"
    /\ caller' = Returned(caller, frames[Caller].err)
    /\ hist' = Completed(frames[Caller])
    /\ frames' = [frames EXCEPT ![Caller] = IdleFrame]
    /\ UNCHANGED <<options, probe, chans, handled, namer, hub, checksum, heap, tasks, handle, readers, ctx, fault>>

\* An application that supplies Options.Fetch calls Config.Load itself
\* (ClientOptions has no Fetch field).
ConfigLoad ==
    /\ Alive
    /\ options.fetch
    /\ caller.pc \in {"new", "ready"}
    /\ Len(heap) < MaxHubs
    /\ caller' = [caller EXCEPT !.pc = "load"]
    /\ Call(Caller)
    /\ UNCHANGED <<probe, chans, handled, namer, hub, checksum, heap, tasks, handle, readers, ctx, fault, hist>>

ConfigLoadReturn ==
    /\ Alive
    /\ caller.pc = "load"
    /\ frames[Caller].pc = "ret"
    /\ caller' = Returned(caller, frames[Caller].err)
    /\ hist' = Completed(frames[Caller])
    /\ frames' = [frames EXCEPT ![Caller] = IdleFrame]
    /\ UNCHANGED <<options, probe, chans, handled, namer, hub, checksum, heap, tasks, handle, readers, ctx, fault>>

\* spawn.Tick(ctx, f, d) and spawn.Run(ctx, f) up to the go statement: a
\* context derived from ctx, an open done channel, a goroutine not yet run.
Tick(f, d) == [NoTask EXCEPT !.pc = "spawned", !.kind = "tick", !.fn = f, !.d = d]

Run(f) == [NoTask EXCEPT !.pc = "spawned", !.kind = "run", !.fn = f]

\* Client.Start: c.handle = spawn.Tick(ctx, c.reload, interval); the goroutine
\* is created and Start returns nil.
Start ==
    /\ Alive
    /\ caller.pc = "ready"
    /\ ~options.fetch
    /\ tasks["t1"].pc = "none"
    /\ tasks' = [tasks EXCEPT !["t1"] = Tick("reload", options.interval)]
    /\ handle' = "t1"
    /\ caller' = [caller EXCEPT !.pc = "started"]
    /\ UNCHANGED <<options, probe, chans, handled, namer, hub, checksum, heap, frames, readers, ctx, fault, hist>>

\* A done channel that reads as closed once the task's context is cancelled.
DoneClosedOnCancel(t) == tasks[t].closed > 0 \/ tasks[t].cancelled

\* <-h.done is ready: the done channel of the task has been closed.
DoneClosed(t) == tasks[t].closed > 0

\* A Cancel that closes a channel, which panics the second time.
CancelClosesChannel(t) ==
    IF tasks[t].cancelled
    THEN /\ fault' = "close of closed channel"
         /\ UNCHANGED tasks
    ELSE /\ tasks' = [tasks EXCEPT ![t] = [@ EXCEPT !.cancelled = TRUE]]
         /\ UNCHANGED fault

\* Client.Shutdown on a client whose Start was never called: c.handle is the
\* nil interface, and the method call c.handle.Cancel() panics.
ShutdownUnstarted ==
    /\ Alive
    /\ caller.pc \in {"new", "ready"}
    /\ handle = NoHandle
    /\ fault' = "nil pointer dereference in Shutdown"
    /\ UNCHANGED <<options, probe, chans, handled, namer, hub, checksum, heap, frames, tasks, handle, caller, readers, ctx, hist>>

\* Client.Start called again on a client that has been started: a second
\* task is spawned and c.handle is overwritten, the first handle is lost.
StartAgain ==
    /\ Alive
    /\ caller.pc \in {"started", "stopped"}
    /\ tasks["t2"].pc = "none"
    /\ tasks' = [tasks EXCEPT !["t2"] = Tick("reload", options.interval)]
    /\ handle' = "t2"
    /\ caller' = [caller EXCEPT !.pc = "started"]
    /\ UNCHANGED <<options, probe, chans, handled, namer, hub, checksum, heap, frames, readers, ctx, fault, hist>>

\* A Cancel that waits until the task has completed.
CancelWaitsForTask(t) ==
    /\ DoneClosed(t)
    /\ tasks' = [tasks EXCEPT ![t] = [@ EXCEPT !.cancelled = TRUE]]
    /\ UNCHANGED fault

\* taskHandle.Cancel: h.cancel() cancels the task's context and returns; a
\* context.CancelFunc does nothing after its first call.
Cancel(t) ==
    /\ tasks' = [tasks EXCEPT ![t] = [@ EXCEPT !.cancelled = TRUE]]
    /\ UNCHANGED fault

\* Client.Shutdown, first statement: c.handle.Cancel(). The field again
\* records that this call came after an earlier Shutdown had seen the task
\* stop.
Shutdown ==
    /\ Alive
    /\ caller.pc \in {"started", "stopped"}
    /\ Cancel(handle)
    /\ caller' = [caller EXCEPT !.pc = "join",
                                !.again = (caller.pc = "stopped" /\ tasks[handle].pc = "done")]
    /\ ctx' = [ctx EXCEPT !.join = FALSE]
    /\ UNCHANGED <<options, probe, chans, handled, namer, hub, checksum, heap, frames, handle, readers, hist>>

\* A Join that returns as soon as the task's context is cancelled.
JoinReturnsOnCancel ==
    /\ Alive
    /\ caller.pc = "join"
    /\ ctx.join \/ tasks[handle].cancelled
    /\ caller' = [caller EXCEPT !.pc = "stopped", !.seen = tasks[handle].calls]
    /\ UNCHANGED <<options, probe, chans, handled, namer, hub, checksum, heap, frames, tasks, handle, readers, ctx, fault, hist>>

\* A Join that cancels the task when the caller's context is done.
JoinCancelsOnExpiry ==
    /\ Alive
    /\ caller.pc = "join"
    /\ ctx.join \/ DoneClosed(handle)
    /\ caller' = [caller EXCEPT !.pc = "stopped", !.seen = tasks[handle].calls]
    /\ tasks' = [tasks EXCEPT ![handle] = [@ EXCEPT !.cancelled = @ \/ ~DoneClosed(handle)]]
    /\ UNCHANGED <<options, probe, chans, handled, namer, hub, checksum, heap, frames, handle, readers, ctx, fault, hist>>

\* A Join that waits for the done channel only.
JoinIgnoresContext ==
    /\ Alive
    /\ caller.pc = "join"
    /\ DoneClosed(handle)
    /\ caller' = [caller EXCEPT !.pc = "stopped", !.seen = tasks[handle].calls]
    /\ UNCHANGED <<options, probe, chans, handled, namer, hub, checksum, heap, frames, tasks, handle, readers, ctx, fault, hist>>

\* taskHandle.Join: the select returns when the caller's context is done or
\* the task's done channel is closed; Shutdown then returns nil. The field
\* seen records how many invocations the task had started by then.
Join ==
    /\ Alive
    /\ caller.pc = "join"
    /\ ctx.join \/ DoneClosed(handle)
    /\ caller' = [caller EXCEPT !.pc = "stopped", !.seen = tasks[handle].calls]
    /\ UNCHANGED <<options, probe, chans, handled, namer, hub, checksum, heap, frames, tasks, handle, readers, ctx, fault, hist>>

\* The context given to Shutdown expires.
JoinCtxDone ==
    /\ Alive
    /\ caller.pc = "join"
    /\ ~ctx.join
    /\ ctx' = [ctx EXCEPT !.join = TRUE]
    /\ UNCHANGED <<options, probe, chans, handled, namer, hub, checksum, heap, frames, tasks, handle, caller, readers, fault, hist>>

\* The context given to Start is cancelled or expires.
StartCtxDone ==
    /\ Alive
    /\ handle # NoHandle
    /\ ~ctx.start
    /\ ctx' = [ctx EXCEPT !.start = TRUE]
    /\ UNCHANGED <<options, probe, chans, handled, namer, hub, checksum, heap, frames, tasks, handle, caller, readers, fault, hist>>

\* ------------------------------------------------------------ spawn.Tick
\* time.NewTicker(d) panics when d is not positive.
NewTickerPanics(d) == d <= 0

\* A goroutine that returns without closing its done channel.
GoroutineReturnLeavesOpen(task) ==
    [task EXCEPT !.pc = "done", !.cancelled = TRUE, !.running = 0]

\* The goroutine of a task returns: the deferred calls cancel the context
\* and close h.done.
GoroutineReturn(task) ==
    [task EXCEPT !.pc = "done", !.cancelled = TRUE, !.running = 0, !.closed = @ + 1]

\* The goroutine of Tick starts: ticker := time.NewTicker(d). When NewTicker
\* panics the goroutine is unwound through the calls it has deferred before:
\* cancel() and close(h.done) run, so the task's context is cancelled and its
\* done channel is closed while the process is still running.
TickNewTicker(t) ==
    /\ Alive
    /\ tasks[t].pc = "spawned"
    /\ tasks[t].kind = "tick"
    /\ tasks' = [tasks EXCEPT ![t] =
                    IF NewTickerPanics(tasks[t].d)
                    THEN [GoroutineReturn(@) EXCEPT !.panic = "non-positive interval for NewTicker"]
                    ELSE [@ EXCEPT !.pc = "select"]]
    /\ UNCHANGED <<options, probe, chans, handled, namer, hub, checksum, heap, frames, handle, caller, readers, ctx, fault, hist>>

\* The runtime ends the process after the deferred calls of a goroutine that
\* panicked have run: the other goroutines run until then.
PanicExit(t) ==
    /\ Alive
    /\ tasks[t].panic # "none"
    /\ fault' = tasks[t].panic
    /\ UNCHANGED <<options, probe, chans, handled, namer, hub, checksum, heap, frames, tasks, handle, caller, readers, ctx, hist>>

\* The ticker puts a tick into its one-slot channel.
TickerFire(t) ==
    /\ Alive
    /\ tasks[t].kind = "tick" \/ (tasks[t].kind = "chan" /\ tasks[t].d > 0)
    /\ tasks[t].pc \in {"select", "call"}
    /\ ~tasks[t].tick
    /\ tasks' = [tasks EXCEPT ![t] = [@ EXCEPT !.tick = TRUE]]
    /\ UNCHANGED <<options, probe, chans, handled, namer, hub, checksum, heap, frames, handle, caller, readers, ctx, fault, hist>>

\* <-ctx.Done() of the task's context: cancelled by Cancel or by the parent.
CtxDone(t) == tasks[t].cancelled \/ ctx.start

\* A loop of Tick that starts its function in a goroutine of its own and
\* selects again at once.
TickSelectTickGo(t) ==
    /\ Alive
    /\ tasks[t].kind = "tick"
    /\ tasks[t].pc = "select"
    /\ tasks[t].tick
    /\ tasks[t].fn # "reload"
    /\ tasks[t].calls < MaxCalls
    /\ tasks' = [tasks EXCEPT ![t] = [@ EXCEPT !.tick = FALSE, !.running = @ + 1, !.calls = @ + 1]]
    /\ UNCHANGED <<options, probe, chans, handled, namer, hub, checksum, heap, frames, handle, caller, readers, ctx, fault, hist>>

\* select, case <-ticker.C: f(ctx). For Client.reload f calls Load
\* (Len(heap) < MaxHubs caps the number of hub objects of a behaviour); for
\* another function the invocation is counted, up to MaxCalls.
TickSelectTick(t) ==
    /\ Alive
    /\ tasks[t].kind = "tick"
    /\ tasks[t].pc = "select"
    /\ tasks[t].tick
    /\ IF tasks[t].fn = "reload"
       THEN /\ Len(heap) < MaxHubs
            /\ tasks' = [tasks EXCEPT ![t] = [@ EXCEPT !.pc = "call", !.tick = FALSE, !.running = @ + 1]]
            /\ Call(t)
       ELSE /\ tasks[t].calls < MaxCalls
            /\ tasks' = [tasks EXCEPT ![t] = [@ EXCEPT !.pc = "call", !.tick = FALSE,
                                                      !.running = @ + 1, !.calls = @ + 1]]
            /\ UNCHANGED <<options, frames>>
    /\ UNCHANGED <<probe, chans, handled, namer, hub, checksum, heap, handle, caller, readers, ctx, fault, hist>>

\* A loop of Tick that ends when the load has failed.
AfterReloadStopsOnError(task, err) ==
    IF err # "nil"
    THEN [task EXCEPT !.pc = "done", !.logged = TRUE, !.cancelled = TRUE, !.running = 0,
                      !.closed = @ + 1]
    ELSE [task EXCEPT !.pc = "select", !.logged = FALSE, !.running = 0]

\* The task after reload has returned with error err: reload logs the error
\* and returns, and the loop of Tick selects again.
AfterReload(task, err) ==
    [task EXCEPT !.pc = "select", !.logged = (err # "nil"), !.running = 0]

\* Client.reload returns to the loop of Tick.
reloadReturn(t) ==
    /\ Alive
    /\ tasks[t].pc = "call"
    /\ frames[t].pc = "ret"
    /\ tasks' = [tasks EXCEPT ![t] = AfterReload(@, frames[t].err)]
    /\ hist' = Completed(frames[t])
    /\ frames' = [frames EXCEPT ![t] = IdleFrame]
    /\ UNCHANGED <<options, probe, chans, handled, namer, hub, checksum, heap, handle, caller, readers, ctx, fault>>

\* A loop of Tick that leaves only when the parent context is done.
TickSelectDoneOnParentOnly(t) ==
    /\ Alive
    /\ tasks[t].kind = "tick"
    /\ tasks[t].pc = "select"
    /\ ctx.start
    /\ tasks' = [tasks EXCEPT ![t] = GoroutineReturn(@)]
    /\ UNCHANGED <<options, probe, chans, handled, namer, hub, checksum, heap, frames, handle, caller, readers, ctx, fault, hist>>

\* select, case <-ticker.C: f(ctx), for the invocations past MaxCalls: the
\* counter calls stays at MaxCalls, the loop goes on as before.
TickSelectTickAgain(t) ==
    /\ Alive
    /\ tasks[t].kind = "tick"
    /\ tasks[t].pc = "select"
    /\ tasks[t].tick
    /\ tasks[t].fn # "reload"
    /\ tasks[t].calls = MaxCalls
    /\ tasks' = [tasks EXCEPT ![t] = [@ EXCEPT !.pc = "call", !.tick = FALSE, !.running = @ + 1]]
    /\ UNCHANGED <<options, probe, chans, handled, namer, hub, checksum, heap, frames, handle, caller, readers, ctx, fault, hist>>

\* select, case <-ctx.Done(): return; the deferred calls stop the ticker,
\* cancel the context and close h.done.
TickSelectDone(t) ==
    /\ Alive
    /\ tasks[t].kind = "tick"
    /\ tasks[t].pc = "select"
    /\ CtxDone(t)
    /\ tasks' = [tasks EXCEPT ![t] = GoroutineReturn(@)]
    /\ UNCHANGED <<options, probe, chans, handled, namer, hub, checksum, heap, frames, handle, caller, readers, ctx, fault, hist>>

\* ---------------------------------------------- spawn with any function
\* The functions given to Run and Tick: "work" returns by itself, "wait"
\* returns once its context is done (func(ctx) { <-ctx.Done() }).
Functions == {"work", "wait"}

\* The intervals given to Tick.
Intervals == {0, 1}

\* The invocation of f(ctx) in progress can return.
FnMayReturn(t) == tasks[t].fn = "work" \/ CtxDone(t)

\* h := spawn.Run(ctx, f) by the driving goroutine.
CallRun ==
    /\ Alive
    /\ caller.pc = "new"
    /\ \E f \in Functions : tasks' = [tasks EXCEPT !["t1"] = Run(f)]
    /\ handle' = "t1"
    /\ caller' = [caller EXCEPT !.pc = "started"]
    /\ UNCHANGED <<options, probe, chans, handled, namer, hub, checksum, heap, frames, readers, ctx, fault, hist>>

\* h := spawn.Tick(ctx, f, d) by the driving goroutine.
CallTick ==
    /\ Alive
    /\ caller.pc = "new"
    /\ \E f \in Functions, d \in Intervals : tasks' = [tasks EXCEPT !["t1"] = Tick(f, d)]
    /\ handle' = "t1"
    /\ caller' = [caller EXCEPT !.pc = "started"]
    /\ UNCHANGED <<options, probe, chans, handled, namer, hub, checksum, heap, frames, readers, ctx, fault, hist>>

\* h.Cancel() by the driving goroutine, at any time after the spawn and any
\* number of times (counted up to MaxCancels); the field again records a
\* call made when the task had completed.
CallCancel ==
    /\ Alive
    /\ caller.pc \in {"started", "stopped"}
    /\ caller.cancels < MaxCancels
    /\ Cancel(handle)
    /\ caller' = [caller EXCEPT !.cancels = @ + 1, !.again = @ \/ DoneClosed(handle)]
    /\ UNCHANGED <<options, probe, chans, handled, namer, hub, checksum, heap, frames, handle, readers, ctx, hist>>

\* h.Join(ctx) by the driving goroutine, with a context that is not done.
CallJoin ==
    /\ Alive
    /\ caller.pc \in {"started", "stopped"}
    /\ caller' = [caller EXCEPT !.pc = "join"]
    /\ ctx' = [ctx EXCEPT !.join = FALSE]
    /\ UNCHANGED <<options, probe, chans, handled, namer, hub, checksum, heap, frames, tasks, handle, readers, fault, hist>>

\* The goroutine of Run calls f(ctx).
RunCall(t) ==
    /\ Alive
    /\ tasks[t].kind = "run"
    /\ tasks[t].pc = "spawned"
    /\ tasks' = [tasks EXCEPT ![t] = [@ EXCEPT !.pc = "call", !.running = @ + 1, !.calls = @ + 1]]
    /\ UNCHANGED <<options, probe, chans, handled, namer, hub, checksum, heap, frames, handle, caller, readers, ctx, fault, hist>>

\* f(ctx) returns in the goroutine of Run, which returns.
RunReturn(t) ==
    /\ Alive
    /\ tasks[t].kind = "run"
    /\ tasks[t].pc = "call"
    /\ FnMayReturn(t)
    /\ tasks' = [tasks EXCEPT ![t] = GoroutineReturn(@)]
    /\ UNCHANGED <<options, probe, chans, handled, namer, hub, checksum, heap, frames, handle, caller, readers, ctx, fault, hist>>

\* f(ctx) returns to the loop of Tick.
TickFnReturn(t) ==
    /\ Alive
    /\ tasks[t].kind = "tick"
    /\ tasks[t].fn # "reload"
    /\ tasks[t].running > 0
    /\ FnMayReturn(t)
    /\ tasks' = [tasks EXCEPT ![t] = [@ EXCEPT !.pc = "select", !.running = @ - 1]]
    /\ UNCHANGED <<options, probe, chans, handled, namer, hub, checksum, heap, frames, handle, caller, readers, ctx, fault, hist>>

\* ------------------------------------------------------------ spawn.Chan2
\* spawn.Chan2(ctx, ch1, f1, ch2, f2, options...) up to the go statement;
\* d = 0 stands for a call without WithTicker.
Chan2(cleanup, d) ==
    [NoTask EXCEPT !.pc = "spawned", !.kind = "chan", !.fn = "work", !.d = d,
                   !.cleanup = cleanup]

\* h := spawn.Chan2(...) by the driving goroutine, with or without
\* WithCleanup(true) and WithTicker.
CallChan2 ==
    /\ Alive
    /\ caller.pc = "new"
    /\ \E cleanup \in BOOLEAN, d \in Intervals :
         tasks' = [tasks EXCEPT !["t1"] = Chan2(cleanup, d)]
    /\ handle' = "t1"
    /\ caller' = [caller EXCEPT !.pc = "started"]
    /\ UNCHANGED <<options, probe, chans, handled, namer, hub, checksum, heap, frames, readers, ctx, fault, hist>>

\* A task of Chan2 exists: its producers send and close.
Producing == handle # NoHandle /\ tasks[handle].kind = "chan"

\* A producer sends the next value on channel c, which has room for it.
Send(c) ==
    /\ Alive
    /\ Producing
    /\ ~chans[c].closed
    /\ chans[c].sent < MaxSends
    /\ Len(chans[c].buf) < ChanCap
    /\ chans' = [chans EXCEPT ![c] = [@ EXCEPT !.buf = Append(@, chans[c].sent + 1),
                                               !.sent = @ + 1]]
    /\ UNCHANGED <<options, probe, handled, namer, hub, checksum, heap, frames, tasks, handle, caller, readers, ctx, fault, hist>>

\* The producer closes channel c.
CloseChan(c) ==
    /\ Alive
    /\ Producing
    /\ ~chans[c].closed
    /\ chans' = [chans EXCEPT ![c] = [@ EXCEPT !.closed = TRUE]]
    /\ UNCHANGED <<options, probe, handled, namer, hub, checksum, heap, frames, tasks, handle, caller, readers, ctx, fault, hist>>

\* The goroutine of Chan2 starts: the ticker is created when the interval is
\* positive, and the loop selects.
ChanStart(t) ==
    /\ Alive
    /\ tasks[t].kind = "chan"
    /\ tasks[t].pc = "spawned"
    /\ tasks' = [tasks EXCEPT ![t] = [@ EXCEPT !.pc = "select"]]
    /\ UNCHANGED <<options, probe, chans, handled, namer, hub, checksum, heap, frames, handle, caller, readers, ctx, fault, hist>>

\* v := <-ch is ready: a value is buffered, or the channel is closed.
Ready(c) == Len(chans[c].buf) > 0 \/ chans[c].closed

\* v := <-ch followed by the call f(ctx, v) of the channel's handler: the
\* oldest buffered value, or the zero value of a closed and empty channel.
Receive(c) ==
    IF Len(chans[c].buf) > 0
    THEN /\ chans' = [chans EXCEPT ![c] = [@ EXCEPT !.buf = Tail(@)]]
         /\ handled' = Append(handled, [f |-> c, ch |-> c, v |-> Head(chans[c].buf)])
    ELSE /\ chans' = [chans EXCEPT ![c] = [@ EXCEPT !.zero = TRUE]]
         /\ UNCHANGED handled

\* select, case <-tc: o.tickerFunction(ctx).
ChanSelectTick(t) ==
    /\ Alive
    /\ tasks[t].kind = "chan"
    /\ tasks[t].pc = "select"
    /\ tasks[t].tick
    /\ tasks' = [tasks EXCEPT ![t] = [@ EXCEPT !.pc = "call", !.tick = FALSE, !.running = @ + 1]]
    /\ UNCHANGED <<options, probe, chans, handled, namer, hub, checksum, heap, frames, handle, caller, readers, ctx, fault, hist>>

\* select, case v := <-ch_c: f_c(ctx, v).
ChanSelectRecv(t, c) ==
    /\ Alive
    /\ tasks[t].kind = "chan"
    /\ tasks[t].pc = "select"
    /\ Ready(c)
    /\ Receive(c)
    /\ tasks' = [tasks EXCEPT ![t] = [@ EXCEPT !.pc = "call", !.running = @ + 1]]
    /\ UNCHANGED <<options, probe, namer, hub, checksum, heap, frames, handle, caller, readers, ctx, fault, hist>>

\* The handler or the ticker function returns, to the loop or to cleanup.
ChanFnReturn(t) ==
    /\ Alive
    /\ tasks[t].kind = "chan"
    /\ tasks[t].pc \in {"call", "cleancall"}
    /\ tasks' = [tasks EXCEPT ![t] = [@ EXCEPT !.pc = IF @ = "call" THEN "select" ELSE "cleanup",
                                              !.running = @ - 1]]
    /\ UNCHANGED <<options, probe, chans, handled, namer, hub, checksum, heap, frames, handle, caller, readers, ctx, fault, hist>>

\* The values buffered and not yet received, each with its channel.
Buffered ==
    {[ch |-> c, v |-> chans[c].buf[i]] : <<c, i>> \in
        {ci \in ChanIds \X (1..ChanCap) : ci[2] <= Len(chans[ci[1]].buf)}}

\* select, case <-ctx.Done(): with o.cleanup the channels are drained in
\* order, starting with the first; without it the goroutine returns.
ChanSelectDone(t) ==
    /\ Alive
    /\ tasks[t].kind = "chan"
    /\ tasks[t].pc = "select"
    /\ CtxDone(t)
    /\ tasks' = [tasks EXCEPT ![t] =
                    IF @.cleanup
                    THEN [@ EXCEPT !.pc = "cleanup", !.stage = 1, !.pending = Buffered]
                    ELSE GoroutineReturn(@)]
    /\ UNCHANGED <<options, probe, chans, handled, namer, hub, checksum, heap, frames, handle, caller, readers, ctx, fault, hist>>

\* cleanup(ctx, ch, f), case v := <-ch: f(ctx, v).
cleanupRecv(t) ==
    /\ Alive
    /\ tasks[t].pc = "cleanup"
    /\ Ready(tasks[t].stage)
    /\ Receive(tasks[t].stage)
    /\ tasks' = [tasks EXCEPT ![t] = [@ EXCEPT !.pc = "cleancall", !.running = @ + 1]]
    /\ UNCHANGED <<options, probe, namer, hub, checksum, heap, frames, handle, caller, readers, ctx, fault, hist>>

\* A cleanup that drains the first channel only.
cleanupFirstChannelOnly(t) ==
    /\ Alive
    /\ tasks[t].pc = "cleanup"
    /\ ~Ready(tasks[t].stage)
    /\ tasks' = [tasks EXCEPT ![t] = GoroutineReturn(@)]
    /\ UNCHANGED <<options, probe, chans, handled, namer, hub, checksum, heap, frames, handle, caller, readers, ctx, fault, hist>>

\* cleanup(ctx, ch, f), default: return; the next channel is drained, and
\* after the last one the goroutine returns.
cleanupDefault(t) ==
    /\ Alive
    /\ tasks[t].pc = "cleanup"
    /\ ~Ready(tasks[t].stage)
    /\ tasks' = [tasks EXCEPT ![t] =
                    IF @.stage < NChans THEN [@ EXCEPT !.stage = @ + 1]
                    ELSE GoroutineReturn(@)]
    /\ UNCHANGED <<options, probe, chans, handled, namer, hub, checksum, heap, frames, handle, caller, readers, ctx, fault, hist>>

\* ------------------------------------------------------- direct calls
\* res := s.Compact() on the caller's scope list; arr is that list after
\* the call.
CallCompact ==
    /\ probe.pc = "scopes"
    /\ probe' = [probe EXCEPT !.pc = "compacted", !.res = Compact(probe.scopes),
                              !.arr = CompactBacking(probe.scopes)]
    /\ UNCHANGED <<options, hub, checksum, heap, frames, tasks, handle, namer, caller, readers, ctx, fault, hist, chans, handled>>

\* res.Has(x) on the normalized list.
CallHas ==
    /\ probe.pc = "compacted"
    /\ \E x \in ScopeNames :
         probe' = [probe EXCEPT !.pc = "has", !.x = x, !.has = Has(probe.res, x)]
    /\ UNCHANGED <<options, hub, checksum, heap, frames, tasks, handle, namer, caller, readers, ctx, fault, hist, chans, handled>>

\* ct.Parse() on a content type.
CallParse ==
    /\ probe.pc = "ct"
    /\ probe' = [probe EXCEPT !.pc = "parsed", !.parsed = ContentTypeParse(probe.ct)]
    /\ UNCHANGED <<options, hub, checksum, heap, frames, tasks, handle, namer, caller, readers, ctx, fault, hist, chans, handled>>

\* ------------------------------------------------------------ chain
\* The values that flow through a chain; Zero is the zero value of the type.
Values == 0..2
Zero == 0

\* The stages: "inc" and "dbl" are functions wrapped by chain.Func, which
\* never fail; "fail" and "partial" are wrapped by chain.Func2 and return an
\* error, the first with the zero value, the second with a value of its own.
Runnables == {"inc", "dbl", "fail", "partial"}

\* r.Invoke(x) of one stage.
RunnableInvoke(r, x) ==
    CASE r = "inc" -> [out |-> (x + 1) % 3, err |-> "nil"]
      [] r = "dbl" -> [out |-> (2 * x) % 3, err |-> "nil"]
      [] r = "fail" -> [out |-> Zero, err |-> "failed"]
      [] r = "partial" -> [out |-> (x % 2) + 1, err |-> "partial"]

\* The chains of 2 to MaxStages stages.
StageLists == UNION {[1..n -> Runnables] : n \in 2..MaxStages}

\* A chain that goes on to the next stage after an error.
chainInvokeRunsAllStages(stages, in) ==
    LET n == Len(stages)
        run[i \in 0..n] ==
            IF i = 0 THEN [out |-> in, err |-> "nil", trace |-> <<>>]
            ELSE LET p == run[i - 1]
                     r == RunnableInvoke(stages[i], p.out)
                 IN  [out |-> r.out, err |-> r.err, trace |-> Append(p.trace, i)]
    IN  run[n]

\* chainN.Invoke(in): the stages r1 .. r(N-1) are invoked in turn, each on
\* the output of the one before; an error of one of them ends the call with
\* a bare return (out is the zero value); the last stage's results are
\* returned as they are. trace lists the stages invoked.
chainInvoke(stages, in) ==
    LET n == Len(stages)
        run[i \in 0..n] ==
            IF i = 0 THEN [out |-> in, err |-> "nil", trace |-> <<>>]
            ELSE LET p == run[i - 1]
                 IN  IF p.err # "nil" THEN p
                     ELSE LET r == RunnableInvoke(stages[i], p.out)
                          IN  IF r.err # "nil" /\ i < n
                              THEN [out |-> Zero, err |-> r.err, trace |-> Append(p.trace, i)]
                              ELSE [out |-> r.out, err |-> r.err, trace |-> Append(p.trace, i)]
    IN  run[n]

\* out, err := chain.ChainN(r1, ..., rN).Invoke(in).
CallChainInvoke ==
    /\ probe.pc = "chain"
    /\ probe' = [probe EXCEPT !.pc = "invoked", !.res = chainInvoke(probe.stages, probe.in)]
    /\ UNCHANGED <<options, hub, checksum, heap, frames, tasks, handle, namer, caller, readers, ctx, fault, hist, chans, handled>>

\* --------------------------------------------------------- specification
Next ==
    \/ ClientInit
    \/ InitReturn
    \/ ConfigLoad
    \/ ConfigLoadReturn
    \/ Start
    \/ Shutdown
    \/ Join
    \/ JoinCtxDone
    \/ StartCtxDone
    \/ \E e \in Executors : optionsFetch(e)
    \/ \E e \in Executors : fetch(e)
    \/ \E e \in Executors : loadDir(e)
    \/ \E e \in Executors : parseNew(e)
    \/ \E e \in Executors : HubParse(e)
    \/ \E e \in Executors : parseStore(e)
    \/ \E e \in Executors : loadHTTPChecksum(e)
    \/ \E r \in Readers : Latest(r)
    \/ \E r \in Readers : LatestDone(r)
    \/ \E t \in TaskIds : TickNewTicker(t)
    \/ \E t \in TaskIds : PanicExit(t)
    \/ \E t \in TaskIds : TickerFire(t)
    \/ \E t \in TaskIds : TickSelectTick(t)
    \/ \E t \in TaskIds : reloadReturn(t)
    \/ \E t \in TaskIds : TickSelectDone(t)

Spec == Init /\ [][Next]_vars

\* Package spawn on its own: one task started by Run, Tick or Chan2, and a driving goroutine that calls Cancel and Join in any order.
NoOptions ==
    [source |-> SrcFile, contentType |-> <<>>, scopes |-> <<>>, namer |-> "", fetch |-> FALSE,
     interval |-> 0]

InitSpawn == InitWith(NoOptions, NoProbe)

NextSpawn ==
    \/ CallRun
    \/ CallTick
    \/ CallChan2
    \/ CallCancel
    \/ CallJoin
    \/ Join
    \/ JoinCtxDone
    \/ StartCtxDone
    \/ \E t \in TaskIds : RunCall(t)
    \/ \E t \in TaskIds : RunReturn(t)
    \/ \E t \in TaskIds : TickNewTicker(t)
    \/ \E t \in TaskIds : PanicExit(t)
    \/ \E t \in TaskIds : TickerFire(t)
    \/ \E t \in TaskIds : TickSelectTick(t)
    \/ \E t \in TaskIds : TickFnReturn(t)
    \/ \E t \in TaskIds : TickSelectDone(t)
    \/ \E c \in ChanIds : Send(c)
    \/ \E c \in ChanIds : CloseChan(c)
    \/ \E t \in TaskIds : ChanStart(t)
    \/ \E t \in TaskIds : ChanSelectTick(t)
    \/ \E t \in TaskIds, c \in ChanIds : ChanSelectRecv(t, c)
    \/ \E t \in TaskIds : ChanFnReturn(t)
    \/ \E t \in TaskIds : ChanSelectDone(t)
    \/ \E t \in TaskIds : cleanupRecv(t)
    \/ \E t \in TaskIds : cleanupDefault(t)

SpecSpawn == InitSpawn /\ [][NextSpawn]_vars

\* Every chain of StageLists, to be invoked on every value.
InitChain ==
    \E st \in StageLists, v \in Values :
        InitWith(NoOptions, [pc |-> "chain", stages |-> st, in |-> v,
                             res |-> [out |-> Zero, err |-> "nil", trace |-> <<>>]])

NextChain == CallChainInvoke

SpecChain == InitChain /\ [][NextChain]_vars

\* Scopes.Compact, Scopes.Has and ContentType.Parse called directly on every
\* input of ScopeInputs and ContentTypeInputs.
InitPure ==
    \/ \E s \in ScopeInputs : InitWith(NoOptions, [NoProbe EXCEPT !.pc = "scopes", !.scopes = s])
    \/ \E c \in ContentTypeInputs : InitWith(NoOptions, [NoProbe EXCEPT !.pc = "ct", !.ct = c])

\* spawn.Tick under a fair scheduler, with a function that is invoked any
\* number of times and a Join whose context never expires. The goroutines of
\* the task and of the caller take the steps they can take (weak fairness);
\* a select with several ready cases picks one at random, so that a case
\* which is ready again and again is taken in the end (strong fairness of
\* case <-ctx.Done()). Ticks, Cancel and the expiry of the parent context are
\* left to the environment.
NextTick ==
    \/ CallTick
    \/ CallCancel
    \/ CallJoin
    \/ Join
    \/ StartCtxDone
    \/ \E t \in TaskIds : TickNewTicker(t)
    \/ \E t \in TaskIds : PanicExit(t)
    \/ \E t \in TaskIds : TickerFire(t)
    \/ \E t \in TaskIds : TickSelectTick(t)
    \/ \E t \in TaskIds : TickSelectTickAgain(t)
    \/ \E t \in TaskIds : TickFnReturn(t)
    \/ \E t \in TaskIds : TickSelectDone(t)

FairTick ==
    /\ WF_vars(Join)
    /\ \A t \in TaskIds :
        /\ WF_vars(TickNewTicker(t))
        /\ WF_vars(PanicExit(t))
        /\ WF_vars(TickFnReturn(t))
        /\ SF_vars(TickSelectDone(t))

SpecTickFair == InitSpawn /\ [][NextTick]_vars /\ FairTick

\* spawn.Chan2 under a fair scheduler: the goroutine of the task takes the
\* steps it can take, every handler invocation returns, and the select of
\* the loop takes case <-ctx.Done() in the end when it is ready again and
\* again. The select of cleanup has a default case and so no choice: it
\* receives when a receive is ready. Producers, ticks, Cancel and the expiry
\* of the parent context are left to the environment.
NextChan ==
    \/ CallChan2
    \/ CallCancel
    \/ StartCtxDone
    \/ \E c \in ChanIds : Send(c)
    \/ \E c \in ChanIds : CloseChan(c)
    \/ \E t \in TaskIds : ChanStart(t)
    \/ \E t \in TaskIds : TickerFire(t)
    \/ \E t \in TaskIds : ChanSelectTick(t)
    \/ \E t \in TaskIds, c \in ChanIds : ChanSelectRecv(t, c)
    \/ \E t \in TaskIds : ChanFnReturn(t)
    \/ \E t \in TaskIds : ChanSelectDone(t)
    \/ \E t \in TaskIds : cleanupRecv(t)
    \/ \E t \in TaskIds : cleanupDefault(t)

FairChan ==
    \A t \in TaskIds :
        /\ WF_vars(ChanStart(t))
        /\ WF_vars(ChanFnReturn(t))
        /\ SF_vars(ChanSelectDone(t))
        /\ WF_vars(cleanupRecv(t))
        /\ WF_vars(cleanupDefault(t))

SpecChanFair == InitSpawn /\ [][NextChan]_vars /\ FairChan

\* ------------------------------------------------------ Tick under a clock
\* ctx, cancel := context.WithTimeout(context.Background(), Windows * d);
\* h := spawn.Tick(ctx, f, d); the clock starts with the call. Nothing in the
\* code bounds how long a goroutine waits to run, how long f takes or how
\* late a timer fires: the clock may advance at any point, up to Overrun
\* steps past the deadline.
Deadline == Windows * Period

CallTickTimed ==
    /\ Alive
    /\ caller.pc = "new"
    /\ tasks' = [tasks EXCEPT !["t1"] = Tick("work", Period)]
    /\ handle' = "t1"
    /\ caller' = [caller EXCEPT !.pc = "started"]
    /\ UNCHANGED <<options, probe, chans, handled, namer, hub, checksum, heap, frames, readers, ctx, fault, hist>>

\* h.Join(ctx) with the context that was given to Tick.
CallJoinParent ==
    /\ Alive
    /\ caller.pc = "started"
    /\ caller' = [caller EXCEPT !.pc = "join"]
    /\ UNCHANGED <<options, probe, chans, handled, namer, hub, checksum, heap, frames, tasks, handle, readers, ctx, fault, hist>>

\* The goroutine of Tick starts, at whatever time the scheduler runs it:
\* time.NewTicker(d) ticks every d from now on.
TimedNewTicker(t) ==
    /\ Alive
    /\ tasks[t].pc = "spawned"
    /\ tasks[t].kind = "tick"
    /\ ~NewTickerPanics(tasks[t].d)
    /\ tasks' = [tasks EXCEPT ![t] = [@ EXCEPT !.pc = "select", !.next = ctx.now + tasks[t].d]]
    /\ UNCHANGED <<options, probe, chans, handled, namer, hub, checksum, heap, frames, handle, caller, readers, ctx, fault, hist>>

\* The time of the ticker's next tick has come or has passed.
TickerDue(t) == tasks[t].pc \in {"select", "call"} /\ ctx.now >= tasks[t].next

\* The time of the first tick after now on the ticker's grid: a ticker that
\* fires late leaves out the ticks it has missed.
tickerNext(next, d, now) == next + d * (1 + (now - next) \div d)

\* A ticker that leaves out every other tick.
TimedTickerFireEveryOther(t) ==
    /\ Alive
    /\ tasks[t].kind = "tick"
    /\ TickerDue(t)
    /\ tasks' = [tasks EXCEPT ![t] =
                    [@ EXCEPT !.tick = TRUE,
                              !.next = tickerNext(tasks[t].next, 2 * tasks[t].d, ctx.now)]]
    /\ UNCHANGED <<options, probe, chans, handled, namer, hub, checksum, heap, frames, handle, caller, readers, ctx, fault, hist>>

\* The ticker ticks: a tick goes into the one-slot channel (it is dropped
\* when the slot is taken), and the next one is due at the next multiple of
\* d after now, counted from the ticker's creation.
TimedTickerFire(t) ==
    /\ Alive
    /\ tasks[t].kind = "tick"
    /\ TickerDue(t)
    /\ tasks' = [tasks EXCEPT ![t] =
                    [@ EXCEPT !.tick = TRUE,
                              !.next = tickerNext(tasks[t].next, tasks[t].d, ctx.now)]]
    /\ UNCHANGED <<options, probe, chans, handled, namer, hub, checksum, heap, frames, handle, caller, readers, ctx, fault, hist>>

\* select, case <-ticker.C: f(ctx), every invocation counted.
TimedSelectTick(t) ==
    /\ Alive
    /\ tasks[t].kind = "tick"
    /\ tasks[t].pc = "select"
    /\ tasks[t].tick
    /\ tasks' = [tasks EXCEPT ![t] = [@ EXCEPT !.pc = "call", !.tick = FALSE, !.running = @ + 1,
                                              !.invoked = @ + 1]]
    /\ UNCHANGED <<options, probe, chans, handled, namer, hub, checksum, heap, frames, handle, caller, readers, ctx, fault, hist>>

\* The timer of the context given to Tick and to Join fires, at the deadline
\* or later.
Expire ==
    /\ Alive
    /\ handle # NoHandle
    /\ ctx.now >= Deadline
    /\ ~ctx.start
    /\ ctx' = [ctx EXCEPT !.start = TRUE, !.join = TRUE]
    /\ UNCHANGED <<options, probe, chans, handled, namer, hub, checksum, heap, frames, tasks, handle, caller, readers, fault, hist>>

\* A step of the program or of a timer is ready and has not been taken: the
\* caller can go on, a timer is due, the loop of Tick can select, f has been
\* called and has not returned, or the goroutine of Tick has not started one
\* clock step before a whole interval has passed.
Overdue ==
    \/ caller.pc = "started"
    \/ caller.pc = "join" /\ (ctx.join \/ DoneClosed(handle))
    \/ ctx.now >= Deadline /\ ~ctx.start
    \/ \E t \in TaskIds :
        \/ tasks[t].pc = "spawned" /\ ctx.now >= tasks[t].d - 1
        \/ TickerDue(t)
        \/ tasks[t].pc = "select" /\ (tasks[t].tick \/ CtxDone(t))
        \/ tasks[t].pc = "call"

\* One step of the clock, at any time; late records that a ready step was
\* kept waiting.
Elapse ==
    /\ Alive
    /\ handle # NoHandle
    /\ ctx.now < Deadline + Overrun
    /\ ctx' = [ctx EXCEPT !.now = @ + 1, !.late = @ \/ Overdue]
    /\ UNCHANGED <<options, probe, chans, handled, namer, hub, checksum, heap, frames, tasks, handle, caller, readers, fault, hist>>

NextTimed ==
    \/ CallTickTimed
    \/ CallJoinParent
    \/ Join
    \/ Expire
    \/ Elapse
    \/ \E t \in TaskIds : TimedNewTicker(t)
    \/ \E t \in TaskIds : TimedTickerFire(t)
    \/ \E t \in TaskIds : TimedSelectTick(t)
    \/ \E t \in TaskIds : TickFnReturn(t)
    \/ \E t \in TaskIds : TickSelectDone(t)

SpecTimed == InitSpawn /\ [][NextTimed]_vars

\* The client under a fair scheduler, with a Shutdown whose context never
\* expires: the goroutines take the steps that are theirs to take (weak
\* fairness, strong fairness for case <-ctx.Done() of the select), while the
\* answer of the remote and the completion of a file read are left to the
\* network and the file system, which may keep a call waiting for ever.
InitLoadFair ==
    \E src \in {SrcHTTP, SrcFile} :
        InitWith([source |-> src, contentType |-> <<>>, scopes |-> <<"a", "b">>,
                  namer |-> "", fetch |-> FALSE, interval |-> 1], NoProbe)

NextLoadFair ==
    \/ ClientInit
    \/ InitReturn
    \/ Start
    \/ Shutdown
    \/ Join
    \/ \E e \in Executors : fetch(e)
    \/ \E e \in Executors : loadDir(e)
    \/ \E e \in Executors : parseNew(e)
    \/ \E e \in Executors : HubParse(e)
    \/ \E e \in Executors : parseStore(e)
    \/ \E e \in Executors : loadHTTPChecksum(e)
    \/ \E t \in TaskIds : TickNewTicker(t)
    \/ \E t \in TaskIds : TickerFire(t)
    \/ \E t \in TaskIds : TickSelectTick(t)
    \/ \E t \in TaskIds : reloadReturn(t)
    \/ \E t \in TaskIds : TickSelectDone(t)

FairLoad ==
    /\ WF_vars(InitReturn)
    /\ WF_vars(Join)
    /\ \A e \in Executors :
        /\ WF_vars(parseNew(e))
        /\ WF_vars(HubParse(e))
        /\ WF_vars(parseStore(e))
        /\ WF_vars(loadHTTPChecksum(e))
    /\ \A t \in TaskIds :
        /\ WF_vars(TickNewTicker(t))
        /\ WF_vars(reloadReturn(t))
        /\ SF_vars(TickSelectDone(t))

SpecLoadFair == InitLoadFair /\ [][NextLoadFair]_vars /\ FairLoad

NextPure ==
    \/ CallCompact
    \/ CallHas
    \/ CallParse

SpecPure == InitPure /\ [][NextPure]_vars

\* The client driven without the lifecycle protocol: Start may be called
\* again, Shutdown may be called before Start. The source is a directory, which leaves c.checksum untouched: the
\* loads of two tasks meet only in the atomic hub pointer. The scope list is
\* already sorted and distinct, so the in-place Compact of overlapping loads
\* writes nothing new into the list they share.
InitAnyOrder ==
    InitWith([source |-> SrcFile, contentType |-> <<>>, scopes |-> <<"a", "b">>,
              namer |-> "", fetch |-> FALSE, interval |-> 1], NoProbe)

NextAnyOrder ==
    \/ ClientInit
    \/ InitReturn
    \/ Start
    \/ StartAgain
    \/ Shutdown
    \/ ShutdownUnstarted
    \/ Join
    \/ \E e \in Executors : loadDir(e)
    \/ \E e \in Executors : parseNew(e)
    \/ \E e \in Executors : HubParse(e)
    \/ \E e \in Executors : parseStore(e)
    \/ \E t \in TaskIds : TickNewTicker(t)
    \/ \E t \in TaskIds : TickerFire(t)
    \/ \E t \in TaskIds : TickSelectTick(t)
    \/ \E t \in TaskIds : reloadReturn(t)
    \/ \E t \in TaskIds : TickSelectDone(t)

SpecAnyOrder == InitAnyOrder /\ [][NextAnyOrder]_vars

\* ---------------------------------------------------------------- claims
\* The activations of Load that have reached their return statement.
Returning == {e \in Executors : frames[e].pc = "ret"}

\* An HTTP load whose fetch brought back a checksum and a body.
Answered(f) == f.path = "http" /\ f.fetched

\* C1: when parse has returned inside a Load, then if Hub.Parse accepted the
\* input the live snapshot is the hub built from that input, and if Hub.Parse
\* failed the Load returns the error and the live snapshot is the one from
\* before the call.
C1_ParseSwapsOnlyOnSuccess ==
    \A e \in Executors :
        LET f == frames[e]
        IN  (f.pc \in {"setsum", "ret"} /\ f.decodes > 0) =>
                IF HubAccepts(f.data)
                THEN /\ hub = f.hub
                     /\ hub # NIL
                     /\ heap[hub] = [state |-> "parsed", data |-> f.data]
                     /\ f.err = "nil"
                ELSE /\ f.pc = "ret"
                     /\ f.err = "parse failed"
                     /\ hub = f.preHub

\* A Load returns a parse error while an earlier snapshot is live.
C1_Witness ==
    \E e \in Executors :
        /\ frames[e].pc = "ret"
        /\ frames[e].err = "parse failed"
        /\ frames[e].preHub # NIL
        /\ hub = frames[e].preHub

\* C2: with one Load running and readers inside Latest, the stored reference
\* and every value a reader got are hubs whose Parse has returned nil, and
\* during a Load the stored reference is the snapshot from before the call or
\* the one this call stored.
C2_ReadersSeeOnlyParsedHubs ==
    /\ hub # NIL => heap[hub].state = "parsed"
    /\ \A r \in Readers : readers[r].pc = "got" => heap[readers[r].ptr].state = "parsed"
    /\ \A e \in Executors :
         frames[e].pc # "idle" =>
            \/ hub = frames[e].preHub
            \/ hub = frames[e].hub /\ frames[e].pc \in {"setsum", "ret"}

\* A reader holds a snapshot while hub.Parse of the refresher is running.
C2_Witness ==
    \E r \in Readers, t \in TaskIds :
        /\ readers[r].pc = "got"
        /\ frames[t].pc = "parse"

\* C3: once Init or a first Load has returned a nil error, Latest does not
\* fault.
C3_LatestAfterInitNeverFaults ==
    caller.first = "nil" => fault # "nil pointer dereference"

\* C4: an HTTP load whose response carries the checksum the store holds
\* returns (false, nil), has called Hub.Parse zero times, and leaves snapshot
\* and checksum as they were.
C4_UnchangedChecksumIsNoOp ==
    \A e \in Returning :
        LET f == frames[e]
        IN  (Answered(f) /\ f.newChecksum = f.preSum) =>
                /\ ~f.changed
                /\ f.err = "nil"
                /\ f.decodes = 0
                /\ hub = f.preHub
                /\ checksum = f.preSum

\* An HTTP load is answered with the non-empty checksum the store holds.
C4_Witness ==
    \E e \in Returning :
        /\ Answered(frames[e])
        /\ frames[e].newChecksum = frames[e].preSum
        /\ frames[e].preSum # ""
        /\ ~frames[e].changed

\* C5: an HTTP load whose response carries another checksum and a body that
\* Hub.Parse rejects returns an error and leaves snapshot and checksum as they
\* were.
C5_MalformedBodyKeepsState ==
    \A e \in Returning :
        LET f == frames[e]
        IN  (Answered(f) /\ f.newChecksum # f.preSum /\ ~HubAccepts(f.data)) =>
                /\ f.err # "nil"
                /\ hub = f.preHub
                /\ checksum = f.preSum

\* An HTTP load fails at parse while a snapshot with a checksum is live.
C5_Witness ==
    \E e \in Returning :
        /\ Answered(frames[e])
        /\ frames[e].newChecksum # frames[e].preSum
        /\ frames[e].err = "parse failed"
        /\ frames[e].preSum # ""
        /\ frames[e].preHub # NIL

\* C6: an HTTP load whose response carries another checksum and a body that
\* Hub.Parse accepts returns (true, nil) after exactly one Hub.Parse call, the
\* snapshot is the hub parsed from that body and the checksum is the one
\* returned; while the load runs the checksum is written only once the parsed
\* hub has been stored.
C6_ChangedBodyIsApplied ==
    /\ \A e \in Returning :
         LET f == frames[e]
         IN  (Answered(f) /\ f.newChecksum # f.preSum /\ HubAccepts(f.data)) =>
                /\ f.changed
                /\ f.err = "nil"
                /\ f.decodes = 1
                /\ hub = f.hub
                /\ heap[hub] = [state |-> "parsed", data |-> f.data]
                /\ checksum = f.newChecksum
    /\ \A e \in Executors :
         LET f == frames[e]
         IN  (f.path = "http" /\ f.pc # "idle" /\ checksum # f.preSum) =>
                /\ f.pc = "ret"
                /\ hub = f.hub
                /\ heap[f.hub].state = "parsed"
                /\ checksum = f.newChecksum

\* An HTTP load replaces a live snapshot and its checksum.
C6_Witness ==
    \E e \in Returning :
        /\ Answered(frames[e])
        /\ frames[e].changed
        /\ frames[e].preHub # NIL
        /\ frames[e].preSum # ""
        /\ checksum = frames[e].newChecksum
        /\ checksum # frames[e].preSum

\* C7: when the HTTP load before this one failed at parse with remote
\* checksum X and the remote answers this load with X again, the load is not
\* reported as unchanged, Hub.Parse is called again, and the X-Checksum header
\* of the request carried the checksum of the last applied snapshot, not X.
C7_RetryAfterFailedParse ==
    \A e \in Returning :
        LET f == frames[e]
        IN  (Answered(f) /\ f.retryOf # "none" /\ f.newChecksum = f.retryOf) =>
                /\ ~(~f.changed /\ f.err = "nil")
                /\ f.decodes = 1
                /\ f.sent = f.applied
                /\ f.sent # f.retryOf

\* A retry with the checksum of the failed load succeeds over a live snapshot.
C7_Witness ==
    \E e \in Returning :
        /\ Answered(frames[e])
        /\ frames[e].retryOf = frames[e].newChecksum
        /\ frames[e].applied # ""
        /\ frames[e].changed
        /\ frames[e].err = "nil"

\* C8: every Load returns one of three outcomes: (false, nil) with nothing
\* decoded or replaced, (true, nil) with the snapshot replaced by this call,
\* or a non-nil error with changed = false and the snapshot not replaced.
C8_ThreeOutcomes ==
    \A e \in Returning :
        LET f == frames[e]
        IN  IF f.err # "nil" THEN ~f.changed /\ hub = f.preHub
            ELSE IF f.changed THEN f.hub # NIL /\ hub = f.hub
            ELSE f.decodes = 0 /\ hub = f.preHub

\* C9: a reload that returns an error is logged, the loop of Tick goes back to
\* its select with the ticker running, and the snapshot is the one from before
\* the failed load.
C9_FailedReloadKeepsSchedule ==
    [][\A t \in TaskIds :
          (/\ tasks[t].pc = "call"
           /\ frames[t].pc = "ret"
           /\ frames[t].err # "nil"
           /\ tasks'[t].pc # "call") =>
                /\ tasks'[t].pc = "select"
                /\ tasks'[t].logged
                /\ tasks'[t].cancelled = tasks[t].cancelled
                /\ hub' = frames[t].preHub
                /\ fault' = "none"]_vars

\* After a logged failure the task has taken the next tick and is loading
\* again, a snapshot being live.
C9_Witness ==
    \E t \in TaskIds :
        /\ tasks[t].logged
        /\ tasks[t].pc = "call"
        /\ frames[t].pc = "io"
        /\ hub # NIL

\* C10: with a refresh interval of zero Start does not fault, no background
\* load is performed and the snapshot loaded by Init stays.
C10_ZeroIntervalDisablesRefresh ==
    (options.interval = 0 /\ handle # NoHandle) =>
        /\ fault # "non-positive interval for NewTicker"
        /\ \A t \in TaskIds : frames[t].pc = "idle"

\* C11: Shutdown has requested the cancellation of the task when it waits;
\* it returns only when the done channel of the task is closed or the
\* caller's context is done, and once that context is done it can return.
C11_ShutdownWaitsBounded ==
    /\ [](caller.pc = "join" => tasks[handle].cancelled)
    /\ []((Alive /\ caller.pc = "join" /\ ctx.join) => ENABLED Join)
    /\ [][(caller.pc = "join" /\ caller'.pc # "join") =>
            (tasks[handle].pc = "done" \/ ctx.join)]_vars

\* Shutdown has returned on the expiry of its context while the task is
\* still inside a load.
C11_Witness ==
    /\ caller.pc = "stopped"
    /\ ctx.join
    /\ tasks[handle].pc = "call"

\* C12: once the cancellation of the task has been requested, the loop of
\* Tick starts no new invocation of the load function.
C12_NoLoadStartsAfterCancel ==
    [][\A t \in TaskIds :
          (tasks[t].cancelled /\ tasks[t].pc = "select") => tasks'[t].pc # "call"]_vars

\* C15: Init calls Load once, synchronously, with the source, content type,
\* scopes and resolved namer of the client's options; it returns when that
\* Load has returned, with its error; no task exists and no task load runs
\* before Start.
C15_InitLoadsOnceSynchronously ==
    /\ []((caller.pc \in {"new", "init", "ready"}) =>
            (handle = NoHandle /\ \A t \in TaskIds : tasks[t].pc = "none" /\ frames[t].pc = "idle"))
    /\ [][(caller.pc = "new" /\ caller'.pc = "init") =>
            /\ frames'[Caller].pc # "idle"
            /\ frames'[Caller].source = options.source
            /\ frames'[Caller].scopes = Compact(options.scopes)
            /\ frames'[Caller].dec = ContentTypeParse(options.contentType).dec
            /\ frames'[Caller].namer = ResolveNamer(options.namer, "nil")]_vars
    /\ [][(caller.pc = "init" /\ caller'.pc # "init") =>
            /\ frames[Caller].pc = "ret"
            /\ caller'.err = frames[Caller].err
            /\ caller'.loads = 1]_vars

\* Init has returned the error of its one Load, made with the kebab-case
\* namer, and no task has been started.
C15_Witness ==
    /\ caller.pc = "ready"
    /\ caller.loads = 1
    /\ caller.err = "read failed"
    /\ namer = "kebabCaseNamer"
    /\ handle = NoHandle

\* C13: at most one refresh task of the client is alive, and at most one
\* goroutine is inside Load.
C13_OneTaskSerialLoads ==
    /\ Cardinality({t \in TaskIds : tasks[t].pc \notin {"none", "done"}}) <= 1
    /\ Cardinality({e \in Executors : frames[e].pc # "idle"}) <= 1

\* C14: a Shutdown called when the task has stopped changes neither the task,
\* the snapshot nor the checksum, does not fault, and its Join can return at
\* once.
C14_SecondShutdownIsNoOp ==
    /\ []((Alive /\ caller.pc = "join" /\ tasks[handle].pc = "done") => ENABLED Join)
    /\ [][(caller.pc = "stopped" /\ tasks[handle].pc = "done" /\ caller'.pc = "join") =>
            (tasks' = tasks /\ hub' = hub /\ checksum' = checksum /\ fault' = "none")]_vars

\* Shutdown has been called again after the task had stopped.
C14_Witness ==
    /\ caller.pc = "join"
    /\ caller.again
    /\ tasks[handle].pc = "done"
    /\ hub # NIL
    /\ ~ctx.join

C17_CancelIdempotentNonBlocking ==
    /\ []((Alive /\ caller.pc \in {"started", "stopped"} /\ caller.cancels < MaxCancels) =>
            ENABLED CallCancel)
    /\ [][(caller'.cancels # caller.cancels) =>
            /\ tasks' = [tasks EXCEPT ![handle] = [@ EXCEPT !.cancelled = TRUE]]
            /\ tasks[handle].cancelled => tasks' = tasks
            /\ caller'.pc = caller.pc
            /\ fault' = fault]_vars

\* Cancel has been called MaxCancels times, once at least after the task
\* had completed, and once at least before.
C17_Witness ==
    /\ caller.cancels = MaxCancels
    /\ caller.again
    /\ tasks[handle].fn = "wait"
    /\ tasks[handle].closed = 1
    /\ ~ctx.start

\* C18: a Join on a task started by Run that returns while the caller's
\* context is not done returns after the function has returned, and the
\* function has been invoked once.
C18_RunJoinWaitsForFunction ==
    [][(caller.pc = "join" /\ caller'.pc # "join" /\ ~ctx.join /\ tasks[handle].kind = "run") =>
          /\ tasks[handle].pc = "done"
          /\ tasks[handle].running = 0
          /\ tasks[handle].calls = 1]_vars

\* Join has returned, its context not done, on a task whose function waits
\* for the cancellation, after a Cancel.
C18_Witness ==
    /\ caller.pc = "stopped"
    /\ ~ctx.join
    /\ tasks[handle].kind = "run"
    /\ tasks[handle].fn = "wait"
    /\ caller.cancels > 0
    /\ ~ctx.start

C20_TickNeverOverlaps ==
    /\ [](\A t \in TaskIds : tasks[t].kind = "tick" => tasks[t].running <= 1)
    /\ [][\A t \in TaskIds :
            (tasks[t].kind = "tick" /\ tasks[t].tick /\ ~tasks'[t].tick) =>
                tasks[t].running = 0]_vars

\* A tick is waiting in the ticker's channel while the second invocation of
\* the function is in progress.
C20_Witness ==
    /\ handle # NoHandle
    /\ tasks[handle].kind = "tick"
    /\ tasks[handle].fn = "work"
    /\ tasks[handle].running = 1
    /\ tasks[handle].calls = 2
    /\ tasks[handle].tick

\* The content type c without its parameters: the chunks before the first ";".
MediaType(c) == IF IndexByte(c, ";") >= 1 THEN SubSeq(c, 1, IndexByte(c, ";") - 1) ELSE c

\* C23: Compact of a scope list that contains "*" is the list <<"*">>.
C23_WildcardCompactsToWildcard ==
    (probe.pc \in {"compacted", "has"} /\ "*" \in Range(probe.scopes)) => probe.res = <<"*">>

\* Compact has run on a list with the wildcard in the middle, an empty
\* string and a duplicate.
C23_Witness ==
    /\ probe.pc = "compacted"
    /\ probe.scopes = <<"a", "*", "", "a">>
    /\ probe.res = <<"*">>

\* C24: Compact of a scope list without "*" is strictly ascending, has no
\* empty string, and has exactly the non-empty names of the input.
C24_CompactSortedDistinctNonEmpty ==
    (probe.pc \in {"compacted", "has"} /\ "*" \notin Range(probe.scopes)) =>
        /\ \A i \in 1..(Len(probe.res) - 1) : ScopeRank(probe.res[i]) < ScopeRank(probe.res[i + 1])
        /\ "" \notin Range(probe.res)
        /\ Range(probe.res) = Range(probe.scopes) \ {""}

\* Compact has run on an unsorted list with a duplicate and an empty string.
C24_Witness ==
    /\ probe.pc = "compacted"
    /\ probe.scopes = <<"b", "", "a", "b">>
    /\ probe.res = <<"a", "b">>

\* C25: Has on a normalized list is true for every name when the list is
\* the wildcard, and otherwise true exactly for the elements of the list.
C25_HasIsMembershipOrWildcard ==
    probe.pc = "has" =>
        probe.has = (probe.res = <<"*">> \/ probe.x \in Range(probe.res))

\* Has was asked for a name that is not in the list, on the wildcard list.
C25_Witness ==
    /\ probe.pc = "has"
    /\ probe.res = <<"*">>
    /\ probe.x = "b"
    /\ "b" \notin Range(probe.scopes)
    /\ probe.has

\* C26: after Compact the caller's scope list has the elements it had
\* before the call, in the same order.
C26_CompactLeavesInputUnchanged ==
    probe.pc \in {"compacted", "has"} => probe.arr = probe.scopes

\* C29: Parse gives the empty content type the result of application/json,
\* a content type with parameters the result of its media type, accepts
\* exactly the three media types, and fails on every other one with the
\* unsupported content type error.
C29_ContentTypeParseMapping ==
    probe.pc = "parsed" =>
        LET m == MediaType(probe.ct)
        IN  /\ probe.ct = <<>> => probe.parsed = ContentTypeParse(ContentTypeJSON)
            /\ m # <<>> => probe.parsed = ContentTypeParse(m)
            /\ m = ContentTypeJSON =>
                 probe.parsed = [ext |-> "json", dec |-> "json.Unmarshal", err |-> "nil"]
            /\ m = ContentTypeYAML =>
                 probe.parsed = [ext |-> "yaml", dec |-> "yaml.Unmarshal", err |-> "nil"]
            /\ m = ContentTypeTOML =>
                 probe.parsed = [ext |-> "toml", dec |-> "toml.Unmarshal", err |-> "nil"]
            /\ (probe.ct # <<>> /\ m \notin {ContentTypeJSON, ContentTypeYAML, ContentTypeTOML}) =>
                 probe.parsed = [ext |-> "", dec |-> "", err |-> "unsupported content type"]

\* Parse has run on application/json with a charset parameter.
C29_Witness ==
    /\ probe.pc = "parsed"
    /\ probe.ct = <<"application/json", ";", " charset=utf-8">>
    /\ probe.parsed.ext = "json"

\* Goroutine e calls Load in this step: its activation leaves the idle state
\* and stands where Load first blocks, or where it has returned.
LoadCalled(e) == frames[e].pc = "idle" /\ frames'[e].pc # "idle"

\* The activation f has returned without a Fetch call, an HTTP request, a
\* file read or a decode, and without a new hub.
ReturnedUntouched(f) ==
    /\ f.pc = "ret"
    /\ ~f.fetched
    /\ f.sent = "none"
    /\ f.decodes = 0
    /\ f.hub = NIL

\* The step leaves the snapshot, the stored checksum and the hub objects alone.
StoreUnchanged == hub' = hub /\ checksum' = checksum /\ heap' = heap

\* C27: a Load whose scope list is empty or holds only empty strings returns
\* (false, nil) at once, without a Fetch call, an HTTP request, a file read
\* or a decode, and leaves the snapshot, the checksum and the caller's list
\* as they were.
C27_EmptyScopesLoadIsNoOp ==
    [][\A e \in Executors :
        (LoadCalled(e) /\ \A i \in 1..Len(options.scopes) : options.scopes[i] = "") =>
            /\ ReturnedUntouched(frames'[e])
            /\ frames'[e].changed = FALSE
            /\ frames'[e].err = "nil"
            /\ frames'[e].path = ""
            /\ StoreUnchanged
            /\ options' = options]_vars

\* Init has called Load with the scope list [""], and Load has returned
\* (false, nil).
C27_Witness ==
    /\ caller.pc = "init"
    /\ options.scopes = <<"">>
    /\ frames[Caller].pc = "ret"
    /\ frames[Caller].changed = FALSE
    /\ frames[Caller].err = "nil"

\* C28: a Load whose scope list holds "*" at any position returns
\* (false, usage error) at once: no Fetch call, no directory loader, no HTTP
\* loader, and the snapshot and the checksum stay as they were.
C28_WildcardLoadIsUsageError ==
    [][\A e \in Executors :
        (LoadCalled(e) /\ "*" \in Range(options.scopes)) =>
            /\ ReturnedUntouched(frames'[e])
            /\ frames'[e].changed = FALSE
            /\ frames'[e].err = "scope * should be resolved"
            /\ frames'[e].path = ""
            /\ StoreUnchanged]_vars

\* Init has called Load with the scope list ["*", "b"], and Load has returned
\* the usage error.
C28_Witness ==
    /\ caller.pc = "init"
    /\ options.scopes = <<"*", "b">>
    /\ frames[Caller].pc = "ret"
    /\ frames[Caller].err = "scope * should be resolved"

\* The scope list passes the empty and wildcard checks of Load.
ReachesLoader(scopes) == Len(Compact(scopes)) > 0 /\ "*" \notin Range(scopes)

\* C30: a Load that reaches a loader with an unsupported content type returns
\* the unsupported content type error at once on the Fetch path, the HTTP path
\* and the directory path: no Fetch call, no HTTP request, no file read, no
\* decode, and the snapshot and the checksum stay as they were.
C30_UnsupportedContentTypeSurfaced ==
    [][\A e \in Executors :
        (/\ LoadCalled(e)
         /\ ReachesLoader(options.scopes)
         /\ ContentTypeParse(options.contentType).err # "nil") =>
            /\ ReturnedUntouched(frames'[e])
            /\ frames'[e].err = "unsupported content type"
            /\ frames'[e].path = IF options.fetch \/ HasPrefix(options.source, "http://")
                                     \/ HasPrefix(options.source, "https://")
                                  THEN "" ELSE "dir"
            /\ StoreUnchanged]_vars

\* The source as loadDir gets it from Load.
DirSource(source) == IF HasPrefix(source, "file://") THEN source ELSE Abs(source)

\* C30 (amended): a Load that reaches a loader with an unsupported content
\* type returns an error at once on all three paths, with no Fetch call, no
\* HTTP request, no file read and no decode, and the snapshot and the
\* checksum stay as they were. On the Fetch and HTTP paths the error is the
\* unsupported content type error. On the directory path the source is
\* resolved first: the error is that of filepath.Abs when a plain path cannot
\* be made absolute, that of url.Parse when the source is not a URL, and the
\* unsupported content type error only when the source resolves.
C30_UnsupportedContentTypeAfterSource ==
    [][\A e \in Executors :
        (/\ LoadCalled(e)
         /\ ReachesLoader(options.scopes)
         /\ ContentTypeParse(options.contentType).err # "nil") =>
            /\ ReturnedUntouched(frames'[e])
            /\ StoreUnchanged
            /\ IF options.fetch \/ HasPrefix(options.source, "http://")
                  \/ HasPrefix(options.source, "https://")
               THEN /\ frames'[e].err = "unsupported content type"
                    /\ frames'[e].path = ""
                    /\ ~frames'[e].changed
               ELSE /\ frames'[e].path = "dir"
                    /\ \/ /\ frames'[e].err = "getwd failed"
                          /\ ~HasPrefix(options.source, "file://")
                          /\ ~frames'[e].changed
                       \/ /\ frames'[e].err = "invalid URL escape"
                          /\ urlParse(DirSource(options.source)).err # "nil"
                          /\ frames'[e].changed
                       \/ /\ frames'[e].err = "unsupported content type"
                          /\ urlParse(DirSource(options.source)).err = "nil"
                          /\ frames'[e].changed]_vars

\* Load has returned the unsupported content type error for text/plain on
\* the directory path, whose source resolved, without reading a file.
C30_Witness ==
    /\ caller.pc = "init"
    /\ ~options.fetch
    /\ options.source = SrcFile
    /\ options.contentType = <<"text/plain">>
    /\ ReachesLoader(options.scopes)
    /\ frames[Caller].pc = "ret"
    /\ frames[Caller].path = "dir"
    /\ frames[Caller].changed
    /\ frames[Caller].err = "unsupported content type"
    /\ ~frames[Caller].fetched
    /\ frames[Caller].readable = <<>>

\* The number of handler invocations that received value v of channel c.
TimesHandled(c, v) ==
    Cardinality({i \in 1..Len(handled) : handled[i].ch = c /\ handled[i].v = v})

\* C22: when a Chan2 task with cleanup has fired its completion signal, every
\* value that was buffered when it saw the cancellation has been passed once
\* to the handler of its own channel; at no time is such a value handled
\* twice or by the handler of the other channel.
C22_CleanupHandlesBufferedOnce ==
    \A t \in TaskIds :
        (tasks[t].kind = "chan" /\ tasks[t].cleanup) =>
            /\ \A p \in tasks[t].pending : TimesHandled(p.ch, p.v) <= 1
            /\ \A i \in 1..Len(handled) : handled[i].f = handled[i].ch
            /\ tasks[t].closed > 0 =>
                  \A p \in tasks[t].pending : TimesHandled(p.ch, p.v) = 1

\* A task with cleanup saw the cancellation with values buffered in both
\* channels, and has fired its completion signal.
C22_Witness ==
    \E t \in TaskIds :
        /\ tasks[t].kind = "chan"
        /\ tasks[t].cleanup
        /\ tasks[t].closed = 1
        /\ \A c \in ChanIds : \E p \in tasks[t].pending : p.ch = c
        /\ Cardinality(tasks[t].pending) > NChans

\* The Tick task t has stopped: its goroutine has returned, no invocation of
\* fn is in progress, and its done channel is closed.
TickStopped(t) == tasks[t].pc = "done" /\ tasks[t].running = 0 /\ DoneClosed(t)

\* C21: once Cancel has been called or the parent context is done, a Tick
\* task with a positive interval stops for good, with its completion signal
\* fired and no invocation of fn in progress; and a Join that waits after a
\* Cancel returns.
C21_TickStopsAfterCancel ==
    /\ \A t \in TaskIds :
        (tasks[t].kind = "tick" /\ tasks[t].pc # "none" /\ tasks[t].d > 0 /\ CtxDone(t))
            ~> [](TickStopped(t))
    /\ (/\ caller.pc = "join"
        /\ tasks[handle].kind = "tick"
        /\ tasks[handle].d > 0
        /\ tasks[handle].cancelled) ~> (caller.pc = "stopped")

\* Cancel was called on a Tick task that had invoked fn more than MaxCalls
\* times; the task has stopped and Join has returned, the parent context
\* still live.
C21_Witness ==
    /\ caller.pc = "stopped"
    /\ caller.cancels > 0
    /\ ~ctx.start
    /\ tasks["t1"].kind = "tick"
    /\ tasks["t1"].calls = MaxCalls
    /\ TickStopped("t1")

\* C31: a directory load that meets an unreadable file, at whatever position
\* of the scope list, returns the read error; no hub is created, Hub.Parse is
\* not called, no envelope is built, and the snapshot and the checksum stay
\* as they were.
C31_DirLoadAllOrNothing ==
    [][\A e \in Executors :
        (/\ frames[e].pc = "io"
         /\ frames[e].path = "dir"
         /\ frames'[e] # frames[e]
         /\ FALSE \in Range(frames'[e].readable)) =>
            /\ frames'[e].pc = "ret"
            /\ frames'[e].err = "read failed"
            /\ frames'[e].decodes = 0
            /\ frames'[e].hub = NIL
            /\ frames'[e].data = NoData
            /\ StoreUnchanged]_vars

\* A reload on the scopes a, b found the file of a and not the file of b,
\* and has returned the read error; a snapshot is live.
C31_Witness ==
    \E t \in TaskIds :
        /\ frames[t].path = "dir"
        /\ frames[t].scopes = <<"a", "b">>
        /\ frames[t].readable = <<TRUE, FALSE>>
        /\ frames[t].err = "read failed"
        /\ hub # NIL

\* C32: a directory load that could read the file of every scope has called
\* Hub.Parse once, with an envelope that maps each normalized scope to the
\* bytes of its file.
C32_ReadableDirLoadParsesEnvelope ==
    \A e \in Executors :
        (/\ frames[e].path = "dir"
         /\ frames[e].pc = "ret"
         /\ frames[e].readable # <<>>
         /\ FALSE \notin Range(frames[e].readable)) =>
            /\ frames[e].decodes = 1
            /\ frames[e].data.scopes = frames[e].scopes
            /\ Len(frames[e].data.blobs) = Len(frames[e].scopes)

\* The activation f has obtained bytes, or has failed while obtaining them.
PastTransfer(f) == f.pc \in {"new", "parse", "store", "setsum"} \/ f.fetched \/ f.err = "fetch failed"

\* C33: with Options.Fetch set, whatever the source, a Load takes the Fetch
\* path only: no HTTP request, no file read, the stored checksum neither read
\* nor written; and once it has its bytes it has called Fetch exactly once,
\* with the content type as given and the compacted scopes.
C33_FetchBypassesLoaders ==
    options.fetch =>
        /\ checksum = ""
        /\ \A e \in Executors :
            /\ frames[e].path \in {"", "fetch"}
            /\ frames[e].sent = "none"
            /\ frames[e].readable = <<>>
            /\ frames[e].checksum = ""
            /\ Len(frames[e].fetchCalls) <= 1
            /\ PastTransfer(frames[e]) =>
                  frames[e].fetchCalls =
                      <<[contentType |-> options.contentType, scopes |-> Compact(options.scopes)]>>

\* A Load with Fetch and an http:// source has parsed the bytes Fetch returned
\* for application/json; charset=utf-8 and the scopes a, b.
C33_Witness ==
    /\ options.fetch
    /\ options.source = SrcHTTP
    /\ frames[Caller].pc = "ret"
    /\ frames[Caller].err = "nil"
    /\ frames[Caller].changed
    /\ frames[Caller].fetchCalls =
           <<[contentType |-> <<"application/json", ";", " charset=utf-8">>, scopes |-> <<"a", "b">>]>>
    /\ hub # NIL

\* C34: a reload that waits in its HTTP request or in its file read when the
\* task's context is cancelled leaves that call, and the cancelled task
\* fires its completion signal.
C34_BlockedLoadLeavesOnCancel ==
    \A t \in TaskIds :
        (tasks[t].cancelled /\ frames[t].pc = "io")
            ~> (frames[t].pc # "io" /\ DoneClosed(t))

StageResult(stages, in, k) ==
    LET val[i \in 0..k] ==
            IF i = 0 THEN [out |-> in, err |-> "nil"]
            ELSE RunnableInvoke(stages[i], val[i - 1].out)
    IN  val[k]

FailingStages(stages, in) ==
    {k \in 1..Len(stages) : StageResult(stages, in, k).err # "nil"}

FirstFailing(stages, in) ==
    CHOOSE k \in FailingStages(stages, in) : \A j \in FailingStages(stages, in) : k <= j

\* C36 as stated: the stages run in order up to the first that fails; with no
\* failure the result is the last stage's output and a nil error, and with a
\* failure the result is that stage's error and the zero value.
C36_ChainReturnsZeroOnError ==
    probe.pc = "invoked" =>
        LET st == probe.stages
            n == Len(st)
        IN  IF FailingStages(st, probe.in) = {}
            THEN /\ probe.res.trace = [i \in 1..n |-> i]
                 /\ probe.res.err = "nil"
                 /\ probe.res.out = StageResult(st, probe.in, n).out
            ELSE LET k == FirstFailing(st, probe.in)
                 IN  /\ probe.res.trace = [i \in 1..k |-> i]
                     /\ probe.res.err = StageResult(st, probe.in, k).err
                     /\ probe.res.out = Zero

\* C36, amended: as above, but when the stage that fails is the last one the
\* output is the one that stage returned next to its error.
C36_ChainAppliesStagesInOrder ==
    probe.pc = "invoked" =>
        LET st == probe.stages
            n == Len(st)
        IN  IF FailingStages(st, probe.in) = {}
            THEN /\ probe.res.trace = [i \in 1..n |-> i]
                 /\ probe.res.err = "nil"
                 /\ probe.res.out = StageResult(st, probe.in, n).out
            ELSE LET k == FirstFailing(st, probe.in)
                 IN  /\ probe.res.trace = [i \in 1..k |-> i]
                     /\ probe.res.err = StageResult(st, probe.in, k).err
                     /\ probe.res.out = IF k < n THEN Zero ELSE StageResult(st, probe.in, n).out

\* A chain of three stages whose last stage returned an error next to a
\* value: both were invoked before it, and the value comes back.
C36_Witness ==
    /\ probe.pc = "invoked"
    /\ probe.stages = <<"inc", "dbl", "partial">>
    /\ probe.res.trace = <<1, 2, 3>>
    /\ probe.res.err = "partial"
    /\ probe.res.out # Zero

\* C37: a Shutdown on a client that was never started does not fault.
C37_ShutdownWithoutStartReturns ==
    handle = NoHandle => fault # "nil pointer dereference in Shutdown"

\* C38: once Cancel has been called or the parent context is done, a Chan2
\* task fires its completion signal.
C38_ChanStopsAfterCancel ==
    \A t \in TaskIds :
        (tasks[t].kind = "chan" /\ tasks[t].pc # "none" /\ CtxDone(t)) ~> DoneClosed(t)

\* No HTTP load stands between c.hub.Store and c.checksum = newChecksum.
BetweenLoads == \A e \in Executors : frames[e].pc # "setsum"

\* C39: in a store that is loaded over HTTP only, between loads the stored
\* checksum is the one that came with the body of the live snapshot, whatever
\* loads succeeded, failed or found nothing new before; with no snapshot no
\* checksum is stored, and the live snapshot is a fully parsed hub.
C39_ChecksumBelongsToSnapshot ==
    (~options.fetch /\ HasPrefix(options.source, "http://")) =>
        /\ BetweenLoads => checksum = hist.appliedSum
        /\ hub = NIL => checksum = ""
        /\ hub # NIL => heap[hub].state = "parsed"

\* After a load that was applied with checksum s1 and one that failed at
\* parse, a third one has been applied with checksum s2.
C39_Witness ==
    /\ HasPrefix(options.source, "http://")
    /\ BetweenLoads
    /\ Len(heap) = 3
    /\ heap[1].state = "parsed"
    /\ heap[2].state = "failed"
    /\ hub = 3
    /\ checksum = "s2"
    /\ hist.appliedSum = "s2"

\* C40: once Shutdown has returned with its context not expired, the task's
\* goroutine has returned, no Load is in progress, and no step changes the
\* snapshot, the checksum or the hub objects, or starts a Load.
C40_NoLoadAfterShutdown ==
    [][(caller.pc = "stopped" /\ ~ctx.join) =>
            /\ tasks[handle].pc = "done"
            /\ \A e \in Executors : frames[e].pc = "idle" /\ frames'[e].pc = "idle"
            /\ StoreUnchanged]_vars

\* Shutdown has returned on the completion signal, its context live, after
\* a reload had replaced the snapshot loaded by Init.
C40_Witness ==
    /\ caller.pc = "stopped"
    /\ ~ctx.join
    /\ ~ctx.start
    /\ DoneClosed(handle)
    /\ Len(heap) >= 2
    /\ hub = Len(heap)

====
